---- MODULE Spec2Model ----
(***************************************************************************)
(* Neo-Agent-Rag backend (backend-node): the multi-hop controller          *)
(* (multihop.service.ts), the feedback ledger (feedback.service.ts over    *)
(* the SQLite tables of utils/db), the chat routes (chatHelper.routes.ts)  *)
(* and the feedback route (feedback.routes.ts).                            *)
(*                                                                         *)
(* Scores are fixed-point: semanticScore / keywordScore in tenths (0..10), *)
(* finalScore and thresholds in thousandths (0..1000).  A uuidv4() value   *)
(* is named by its kind and ordinal: request and query ids by the          *)
(* request's number, hop ids by a counter (nextUuid), response and vector  *)
(* ids by their row's position; ids of different kinds are never compared. *)
(***************************************************************************)
EXTENDS Integers, Sequences, FiniteSets, TLC

VARIABLES
    queries,          \* table queries:        <<[id, text]>>
    hops,             \* table hops:           <<[id, query_id, hop_order, sub_query, reasoning, status]>>
    hop_documents,    \* table hop_documents:  <<[hop_id, document_id, dense_score, sparse_score, rank_position]>>
    responses,        \* table responses:      <<[id, query_id, user_feedback, user_correction]>>
    evidence_chains,  \* table evidence_chains:<<[response_id, hop_ids]>>
    upserts,          \* vectors upserted to the vector index by injectCorrection
    nextUuid,         \* the next hop id uuidv4() returns
    mh,               \* the locals of the performMultiHopSearch call in flight (or last finished)
    req,              \* the HTTP request in flight (or last finished)
    reply,            \* the JSON body/status written by res.json for /api/chat
    frames,           \* the SSE frames written by /api/chat/stream
    contextWindow,    \* ConversationMemory: conversation id -> <<[role, content]>>
    feedbackReply,    \* the status of the last answer of POST /api/feedback
    requests,         \* number of requests started
    writers,          \* concurrent performMultiHopSearch calls, as the ledger sees them
    ledgerCall,       \* the last repeated call of logQuery / logHop / logResponse
    handlers,         \* concurrent chat requests, as ConversationMemory sees them
    submitted,        \* the POST /api/feedback requests a client has traced: their number,
                      \* the last body, what its injectCorrection met, weakest-link analyses run
    hybrid,           \* the locals of the performHybridSearch call in flight (or last finished)
    score,            \* the last evaluation of getDocumentGlobalScore for one document
    parsed,           \* the last call of parseLlmJsonResponse: its input and what it gave
    cache,            \* the LRUCache of the embedding service: maxSize and the Map's entries
    embedding         \* the embedding service: its pipe and the generateEmbedding calls

vars == <<queries, hops, hop_documents, responses, evidence_chains, upserts, nextUuid,
          mh, req, reply, frames, contextWindow, feedbackReply, requests, submitted,
          hybrid, score, parsed, cache, embedding, writers, ledgerCall, handlers>>

\* the state of the library units (retriever, document score, formatter, embedding
\* cache), which the controller, the routes and the ledger reach only through their results
units == <<hybrid, score, parsed, cache, embedding>>

\* what no step of the controller and of the chat routes writes
lib == <<units, submitted, writers, ledgerCall, handlers>>

\* the ledger, the vector index and the state of the controller and the routes
app == <<queries, hops, hop_documents, responses, evidence_chains, upserts, nextUuid,
         mh, req, reply, frames, contextWindow, feedbackReply, requests, submitted,
         writers, ledgerCall, handlers>>

ledger == <<queries, hops, hop_documents, responses, evidence_chains>>

-----------------------------------------------------------------------------
(* Bounds of the model *)

\* requests (chat, stream or direct performMultiHopSearch calls) started in one behaviour
MaxRequests == 2
\* rows logResponse may insert in one behaviour
MaxResponses == 2
\* correction vectors upserted in one behaviour
MaxUpserts == 1
\* POST /api/feedback requests one client traces in one behaviour
MaxSubmits == 2
\* performMultiHopSearch calls in flight at once
MaxWriters == 2
\* hops one of these calls runs
MaxWriterHops == 2
\* results the hybrid search of one of their hops returns
MaxWriterDocs == 2
\* largest maxHops a direct caller passes
MaxHopsArg == 2
\* rows of the hops table in one behaviour
MaxHopRows == 3
\* LLM chunks of one streamed answer
MaxChunks == 2

-----------------------------------------------------------------------------
(* Program constants *)

\* chatHelper.routes.ts:71  parseFloat(process.env.RAG_SIMILARITY_THRESHOLD || '0.5')
RagThreshold == 500
\* multihop.service.ts:105  getContextFromHybridResults(allResults, 0.4)
EvalThreshold == 400
\* multihop.service.ts:33   maxHops: number = 1
DefaultMaxHops == 1
\* feedback.service.ts:162  let minScore = 2.0  (dense + sparse, in tenths)
InitialMinScore == 20
\* feedback.service.ts:125  correction.trim().length > 5
MinCorrectionLength == 5

-----------------------------------------------------------------------------
(* Inputs *)

\* knowledge-mode query texts (also the sub-queries the LLM may generate)
QueryTexts == {"qa", "qb"}
\* a general-mode message
GeneralTexts == {"hello"}
\* a property that is absent from an object
Undefined == "undefined"
\* the messages the chat routes receive: one of each mode
Messages == {"qa"} \cup GeneralTexts

\* conversation ids a caller may supply
ConversationIds == { <<"conv", 1>> }

\* HybridSearchResult values the hybrid search may return: the same document can come
\* back with different scores for different sub-queries; text is metadata.text
DocHigh == [id |-> "d1", semanticScore |-> 10, keywordScore |-> 10, finalScore |-> 1000, text |-> "t1"]
DocLow  == [id |-> "d2", semanticScore |-> 2,  keywordScore |-> 0,  finalScore |-> 130,  text |-> "t2"]
DocMid  == [id |-> "d3", semanticScore |-> 6,  keywordScore |-> 4,  finalScore |-> 630,  text |-> ""]

\* what performHybridSearch(q, topK) may resolve to: nothing, one document, two documents
\* (ids within one list are distinct; the same id may come back for another hop)
SearchResults == { <<>>, <<DocHigh>>, <<DocLow>>, <<DocHigh, DocMid>> }

\* the replies of the sufficiency evaluation (callLlm + JSON.parse)
LlmAnalyses ==
    { [kind |-> "throw", sufficient |-> FALSE, queries |-> <<>>],
      [kind |-> "malformed", sufficient |-> FALSE, queries |-> <<>>],
      [kind |-> "json", sufficient |-> TRUE, queries |-> <<>>],
      [kind |-> "json", sufficient |-> TRUE, queries |-> <<"qa">>],
      [kind |-> "json", sufficient |-> FALSE, queries |-> <<>>],
      [kind |-> "json", sufficient |-> FALSE, queries |-> <<"qa">>],
      [kind |-> "json", sufficient |-> FALSE, queries |-> <<"qb", "qa">>] }

\* corrections a feedback submission may carry ("" stands for an absent correction)
Corrections == {"", "fix", "  fix   ", "the launch was in March"}
\* String.prototype.trim on these
Trim(c) == IF c = "  fix   " THEN "fix" ELSE c
\* String.prototype.length on these
Length(c) == CASE c = "" -> 0 [] c = "fix" -> 3 [] c = "  fix   " -> 8 [] OTHER -> 23
CorrectionLength(c) == Length(Trim(c))

\* feedback values a POST /api/feedback body may carry (when it carries one)
FeedbackValues == {-1, 0, 1}

-----------------------------------------------------------------------------
(* Sequence helpers *)

Range(s) == { s[i] : i \in 1..Len(s) }

RECURSIVE SelectIdx(_, _, _)
\* indexes i of s, ascending, with Test(s[i])
SelectIdx(s, Test(_), i) ==
    IF i > Len(s) THEN <<>>
    ELSE IF Test(s[i]) THEN <<i>> \o SelectIdx(s, Test, i + 1)
         ELSE SelectIdx(s, Test, i + 1)

RECURSIVE ConcatMap(_, _, _)
\* F(s[i]) \o F(s[i+1]) \o ... : the rows a nested-loop join yields, in scan order
ConcatMap(s, F(_), i) ==
    IF i > Len(s) THEN <<>> ELSE F(s[i]) \o ConcatMap(s, F, i + 1)

RECURSIVE InsertStable(_, _, _, _)
\* x put into the sorted sequence s behind every element e with Keep(e, x)
InsertStable(s, x, Keep(_, _), i) ==
    IF i > Len(s) THEN Append(s, x)
    ELSE IF Keep(s[i], x) THEN InsertStable(s, x, Keep, i + 1)
         ELSE SubSeq(s, 1, i - 1) \o <<x>> \o SubSeq(s, i, Len(s))

RECURSIVE StableSort(_, _, _)
\* the stable sort of the first n elements of s (Array.prototype.sort / ORDER BY)
StableSort(s, Keep(_, _), n) ==
    IF n = 0 THEN <<>>
    ELSE InsertStable(StableSort(s, Keep, n - 1), s[n], Keep, 1)

-----------------------------------------------------------------------------
(* feedback.service.ts: the ledger *)

\* null / undefined / a falsy id
Null == 0

\* the vector index during a run: usable, PINECONE_API_KEY missing, PINECONE_INDEX
\* missing, or configured with every query (the embedding or index.query) throwing
IndexStates == {"ok", "noApiKey", "noIndexName", "queryFails"}

\* src/unnamed/part_001 lines 55-59: the matches behind a list of results
MatchesOf(results) ==
    [i \in 1..Len(results) |-> [id |-> results[i].id, score |-> results[i].semanticScore]]

RECURSIVE MaxScore(_, _)
\* Math.max(...matches.map(m => m.score)) over the first n matches
MaxScore(matches, n) ==
    IF n = 1 THEN matches[1].score
    ELSE IF matches[n].score > MaxScore(matches, n - 1) THEN matches[n].score
         ELSE MaxScore(matches, n - 1)

\* part_001 lines 36-73: what queryPinecone resolves to when the index, if usable,
\* answers with matches
PineconeResult(index, matches) ==
    IF index \in {"noApiKey", "noIndexName"}
    THEN [matches |-> <<>>, highestScore |-> Null, threw |-> FALSE]
    ELSE IF index = "queryFails"
    THEN [matches |-> <<>>, highestScore |-> Null, threw |-> FALSE]
    ELSE IF Len(matches) = 0
    THEN [matches |-> <<>>, highestScore |-> Null, threw |-> FALSE]
    ELSE [matches |-> matches, highestScore |-> MaxScore(matches, Len(matches)),
          threw |-> FALSE]

\* what performHybridSearch may resolve to in a run: the results fused from the matches
\* queryPinecone returns
HybridSearchResults(index) ==
    { results \in SearchResults :
        PineconeResult(index, MatchesOf(results)).matches = MatchesOf(results) }

QueryRow(queryId, text) == [id |-> queryId, text |-> text]

HopRow(hopId, queryId, hopOrder, subQuery, reasoning) ==
    [id |-> hopId, query_id |-> queryId, hop_order |-> hopOrder, sub_query |-> subQuery,
     reasoning |-> reasoning, status |-> "pending"]

\* the row with rank_position counted from 0
HopDocumentRowFromZero(hopId, res, rank) ==
    [hop_id |-> hopId, document_id |-> res.id, dense_score |-> res.semanticScore,
     sparse_score |-> res.keywordScore, rank_position |-> rank - 1]

\* logHopDocument(hopId, res.id, res.semanticScore, res.keywordScore, rank++)
HopDocumentRow(hopId, res, rank) ==
    [hop_id |-> hopId, document_id |-> res.id, dense_score |-> res.semanticScore,
     sparse_score |-> res.keywordScore, rank_position |-> rank]

\* a TEXT column is NULL (<<>>) or holds one text (<<text>>)
NullText == <<>>

ResponseRow(responseId, queryId) ==
    [id |-> responseId, query_id |-> queryId, user_feedback |-> 0, user_correction |-> NullText]

EvidenceChainRow(responseId, hopIds) == [response_id |-> responseId, hop_ids |-> hopIds]

\* SELECT h.hop_order, h.sub_query, h.reasoning FROM queries q JOIN responses r JOIN hops h
\* WHERE q.text = ? AND r.user_feedback = 1: one row per (q, r, h) triple
TemplateJoin(qs, rs, hs, queryText) ==
    LET HopsOf(q) == ConcatMap(hs, LAMBDA h :
                        IF h.query_id = q.id
                        THEN << [hop_order |-> h.hop_order, sub_query |-> h.sub_query,
                                 reasoning |-> h.reasoning] >>
                        ELSE <<>>, 1)
        RespOf(q) == ConcatMap(rs, LAMBDA r :
                        IF r.query_id = q.id /\ r.user_feedback = 1 THEN HopsOf(q) ELSE <<>>, 1)
    IN  ConcatMap(qs, LAMBDA q : IF q.text = queryText THEN RespOf(q) ELSE <<>>, 1)

HopOrderAsc(e, x) == e.hop_order <= x.hop_order

\* getSuccessfulTemplate: the joined rows ORDER BY h.hop_order ASC (rows of equal
\* hop_order keep the join's scan order)
getSuccessfulTemplate(qs, rs, hs, queryText) ==
    LET rows == TemplateJoin(qs, rs, hs, queryText)
    IN  StableSort(rows, HopOrderAsc, Len(rows))

\* SELECT * FROM evidence_chains WHERE response_id = ? (db.get: the first row, or none)
ChainOf(chains, responseId) ==
    LET idx == SelectIdx(chains, LAMBDA c : c.response_id = responseId, 1)
    IN  IF idx = <<>> THEN <<>> ELSE << chains[idx[1]] >>

\* SELECT dense_score, sparse_score FROM hop_documents WHERE hop_id = ?
DocsOfHop(hds, hopId) ==
    LET idx == SelectIdx(hds, LAMBDA d : d.hop_id = hopId, 1)
    IN  [i \in 1..Len(idx) |-> hds[idx[i]]]

RECURSIVE ScoreSum(_, _)
\* docs.reduce((sum, d) => sum + d.dense_score + d.sparse_score, 0), over the first n
ScoreSum(docs, n) ==
    IF n = 0 THEN 0 ELSE ScoreSum(docs, n - 1) + docs[n].dense_score + docs[n].sparse_score

\* avgScore < minScore, both kept as sum / count
AvgLess(sum, cnt, minSum, minCnt) == sum * minCnt < minSum * cnt

RECURSIVE WeakestLink(_, _, _, _, _, _)
\* the loop of handleNegativeFeedback over hopIds[i..]: the final worstHopId
WeakestLink(hds, hopIds, i, minSum, minCnt, worstHopId) ==
    IF i > Len(hopIds) THEN worstHopId
    ELSE LET docs == DocsOfHop(hds, hopIds[i])
             sum  == ScoreSum(docs, Len(docs))
         IN  IF Len(docs) = 0
             THEN WeakestLink(hds, hopIds, i + 1, minSum, minCnt, worstHopId)
             ELSE IF AvgLess(sum, Len(docs), minSum, minCnt)
                  THEN WeakestLink(hds, hopIds, i + 1, sum, Len(docs), hopIds[i])
                  ELSE WeakestLink(hds, hopIds, i + 1, minSum, minCnt, worstHopId)

\* the update without its WHERE clause
MarkFailedAll(hs, hopId) ==
    [i \in 1..Len(hs) |-> [hs[i] EXCEPT !.status = "failed"]]

\* UPDATE hops SET status = 'failed' WHERE id = ?
MarkFailed(hs, hopId) ==
    [i \in 1..Len(hs) |-> IF hs[i].id = hopId THEN [hs[i] EXCEPT !.status = "failed"] ELSE hs[i]]

\* handleNegativeFeedback: the hops table it leaves
handleNegativeFeedback(hs, hds, chains, responseId) ==
    LET chain == ChainOf(chains, responseId)
    IN  IF chain = <<>> THEN hs
        ELSE LET worstHopId == WeakestLink(hds, chain[1].hop_ids, 1, InitialMinScore, 1, Null)
             IN  IF worstHopId # Null THEN MarkFailed(hs, worstHopId) ELSE hs

\* correction || null: an absent and an empty correction are both ""
OrNull(correction) == IF correction = "" THEN NullText ELSE <<correction>>

\* the update that keeps the stored correction when none is given
UpdateFeedbackKeeping(rs, responseId, feedback, correction) ==
    [i \in 1..Len(rs) |->
        IF rs[i].id = responseId
        THEN [rs[i] EXCEPT !.user_feedback = feedback,
                           !.user_correction = IF correction = "" THEN @ ELSE <<correction>>]
        ELSE rs[i]]

\* UPDATE responses SET user_feedback = ?, user_correction = ? WHERE id = ?
UpdateFeedback(rs, responseId, feedback, correction) ==
    [i \in 1..Len(rs) |->
        IF rs[i].id = responseId
        THEN [rs[i] EXCEPT !.user_feedback = feedback, !.user_correction = OrNull(correction)]
        ELSE rs[i]]

\* correction && correction.trim().length > 5
ShouldInject(correction) == correction # "" /\ CorrectionLength(correction) > MinCorrectionLength

\* the vector injectCorrection upserts
CorrectionVector(uuid, text) ==
    [id |-> <<"correction-", uuid>>, type |-> "correction", text |-> text, source |-> "user_feedback"]

-----------------------------------------------------------------------------
(* multihop.service.ts: performMultiHopSearch *)

\* the locals of a call that has not started; llmCalls and rounds count the sufficiency
\* evaluations issued and the fan-out rounds entered, matched records the prior queries
\* that qualified as a template when the template was looked up, analysis how the last
\* sufficiency evaluation settled
NoRun ==
    [pc |-> "idle", originalQuery |-> "", maxHops |-> 0, queryId |-> Null, hopIds |-> <<>>,
     seenIds |-> {}, allResults |-> <<>>, generatedQueries |-> <<>>, currentHop |-> 0,
     successfulTemplate |-> <<>>, step |-> 1, pending |-> <<>>, path |-> "none",
     llmCalls |-> 0, rounds |-> 0, results |-> <<>>, hops |-> 0, matched |-> {},
     analysis |-> "none", index |-> "ok", searched |-> <<>>, hopFailed |-> FALSE]

\* (searched and hopFailed record the last hop: what its search returned, and whether
\* one of its awaits rejected)
\* lines 35-44: queryId = uuidv4(), logQuery issued, the accumulators empty
NewRun(originalQuery, maxHops, queryId) ==
    [NoRun EXCEPT !.pc = "logQuery", !.originalQuery = originalQuery, !.maxHops = maxHops,
                  !.queryId = queryId]

\* the aggregation without the seenIds test
AddAlways(acc, res) ==
    [seenIds |-> acc.seenIds \cup {res.id}, allResults |-> Append(acc.allResults, res)]

\* if (!seenIds.has(res.id)) { seenIds.add(res.id); allResults.push(res); }
AddIfUnseen(acc, res) ==
    IF res.id \notin acc.seenIds
    THEN [seenIds |-> acc.seenIds \cup {res.id}, allResults |-> Append(acc.allResults, res)]
    ELSE acc

RECURSIVE Aggregate(_, _, _)
\* the aggregation loop over the first n results of a hop
Aggregate(acc, subResults, n) ==
    IF n = 0 THEN acc ELSE AddIfUnseen(Aggregate(acc, subResults, n - 1), subResults[n])

FinalScoreDesc(e, x) == e.finalScore >= x.finalScore

\* the accumulator returned in insertion order
InsertionOrder(allResults) == allResults

\* allResults.sort((a, b) => b.finalScore - a.finalScore)
SortByFinalScore(allResults) == StableSort(allResults, FinalScoreDesc, Len(allResults))

\* lines 73-80 and 162-170: sort and return
Return(run, hopCount) ==
    [run EXCEPT !.pc = "returned", !.results = SortByFinalScore(run.allResults),
                !.hops = hopCount]

\* the promise rejects: an awaited call threw outside the loop's try
Throw(run) == [run EXCEPT !.pc = "threw"]

\* the loop head with an inclusive bound
LoopHeadInclusive(run) ==
    IF run.currentHop <= run.maxHops
    THEN [run EXCEPT !.pc = "evaluate", !.llmCalls = @ + 1]
    ELSE Return(run, run.currentHop)

\* while (currentHop < maxHops): the next sufficiency evaluation is issued, or the loop ends
LoopHead(run) ==
    IF run.currentHop < run.maxHops
    THEN [run EXCEPT !.pc = "evaluate", !.llmCalls = @ + 1]
    ELSE Return(run, run.currentHop)

\* how many of a hop's documents are logged and aggregated when the failAt-th ledger
\* write of the hop rejects (0: logHop; k: the k-th logHopDocument; beyond: none rejects)
Logged(subResults, failAt) ==
    IF failAt = 0 THEN 0
    ELSE IF failAt <= Len(subResults) THEN failAt - 1 ELSE Len(subResults)

HopFailed(subResults, failAt) == failAt <= Len(subResults)

\* one hop: hopIds.push, logHop, performHybridSearch, then logHopDocument + aggregate per
\* result; the ledger part
HopLedger(hopId, queryId, hopOrder, subQuery, reasoning, subResults, failAt) ==
    /\ hops' = IF failAt = 0 THEN hops
               ELSE Append(hops, HopRow(hopId, queryId, hopOrder, subQuery, reasoning))
    /\ hop_documents' = hop_documents \o
            [i \in 1..Logged(subResults, failAt) |-> HopDocumentRow(hopId, subResults[i], i)]

\* one hop: the accumulators
HopAggregate(run, hopId, subResults, failAt) ==
    LET acc == Aggregate([seenIds |-> run.seenIds, allResults |-> run.allResults],
                         subResults, Logged(subResults, failAt))
    IN  [run EXCEPT !.hopIds = Append(@, hopId), !.seenIds = acc.seenIds,
                    !.allResults = acc.allResults,
                    !.searched = IF failAt = 0 THEN <<>> ELSE subResults,
                    !.hopFailed = HopFailed(subResults, failAt)]

RunUnchanged == UNCHANGED <<req, reply, frames, contextWindow, feedbackReply, requests,
                            upserts, lib>>

\* line 39: await feedbackService.logQuery(queryId, originalQuery)
MHLogQuery ==
    /\ mh.pc = "logQuery"
    /\ \/ /\ queries' = Append(queries, QueryRow(mh.queryId, mh.originalQuery))
          /\ mh' = [mh EXCEPT !.pc = "template"]
       \/ /\ mh' = Throw(mh)
          /\ UNCHANGED queries
    /\ UNCHANGED <<hops, hop_documents, responses, evidence_chains, nextUuid>>
    /\ RunUnchanged

\* the queries of the ledger, other than the running one, with this text and a response
\* whose user_feedback is +1
PositiveQueries(qs, rs, queryText, running) ==
    { q \in Range(qs) : /\ q.text = queryText
                        /\ q.id # running
                        /\ \E r \in Range(rs) : r.query_id = q.id /\ r.user_feedback = 1 }

\* lines 47-49: the template lookup decides between replay and the standard path
MHTemplateCheck ==
    /\ mh.pc = "template"
    /\ LET successfulTemplate == getSuccessfulTemplate(queries, responses, hops, mh.originalQuery)
           matched == { q.id : q \in PositiveQueries(queries, responses, mh.originalQuery,
                                                     mh.queryId) }
       IN  mh' = IF Len(successfulTemplate) > 0
                 THEN [mh EXCEPT !.pc = "replay", !.path = "replay", !.matched = matched,
                                 !.successfulTemplate = successfulTemplate, !.step = 1]
                 ELSE [mh EXCEPT !.pc = "initial", !.path = "standard", !.matched = matched]
    /\ UNCHANGED <<ledger, nextUuid>>
    /\ RunUnchanged

\* lines 52-81: one step of the replay loop; after the last one, sort and return
MHReplayStep ==
    /\ mh.pc = "replay"
    /\ Len(hops) < MaxHopRows
    /\ \E subResults \in HybridSearchResults(mh.index) :
      \E failAt \in 0..(Len(subResults) + 1) :
         LET step  == mh.successfulTemplate[mh.step]
             hopId == nextUuid
             run   == HopAggregate(mh, hopId, subResults, failAt)
             next  == [run EXCEPT !.generatedQueries =
                                      IF failAt = 0 THEN @ ELSE Append(@, step.sub_query),
                                  !.step = @ + 1]
         IN  /\ HopLedger(hopId, mh.queryId, step.hop_order, step.sub_query,
                          "Replay from history", subResults, failAt)
             /\ mh' = IF HopFailed(subResults, failAt) THEN Throw(next)
                      ELSE IF next.step > Len(mh.successfulTemplate)
                           THEN Return(next, Len(mh.successfulTemplate))
                           ELSE next
    /\ nextUuid' = nextUuid + 1
    /\ UNCHANGED <<queries, responses, evidence_chains>>
    /\ RunUnchanged

\* lines 86-103: hop 0 with the original query, then the head of the loop
MHInitialHop ==
    /\ mh.pc = "initial"
    /\ Len(hops) < MaxHopRows
    /\ \E subResults \in HybridSearchResults(mh.index) :
      \E failAt \in 0..(Len(subResults) + 1) :
         LET hopId == nextUuid
             run   == HopAggregate(mh, hopId, subResults, failAt)
         IN  /\ HopLedger(hopId, mh.queryId, 0, mh.originalQuery, "Initial Query",
                          subResults, failAt)
             /\ mh' = IF HopFailed(subResults, failAt) THEN Throw(run) ELSE LoopHead(run)
    /\ nextUuid' = nextUuid + 1
    /\ UNCHANGED <<queries, responses, evidence_chains>>
    /\ RunUnchanged

\* how a sufficiency evaluation settled
Settled(analysis) ==
    IF analysis.kind # "json" THEN analysis.kind
    ELSE IF analysis.sufficient THEN "sufficient"
    ELSE IF Len(analysis.queries) = 0 THEN "empty" ELSE "queries"

\* the evaluation with a rejected callLlm left uncaught
EvaluatedUncaught(run, analysis) ==
    LET seen == [run EXCEPT !.analysis = Settled(analysis)]
    IN  IF analysis.kind = "throw" THEN Throw(seen)
        ELSE IF analysis.kind # "json" THEN Return(seen, seen.currentHop)
        ELSE IF analysis.sufficient THEN Return(seen, seen.currentHop)
        ELSE IF Len(analysis.queries) = 0 THEN Return(seen, seen.currentHop)
        ELSE [seen EXCEPT !.pc = "fanout", !.pending = analysis.queries,
                          !.generatedQueries = @ \o analysis.queries,
                          !.rounds = @ + 1]

\* lines 112-133 and 156-159: callLlm rejects (catch, break), JSON.parse throws (break),
\* sufficient (break), no queries (break), or the fan-out is entered
Evaluated(run, analysis) ==
    LET seen == [run EXCEPT !.analysis = Settled(analysis)]
    IN  IF analysis.kind # "json" THEN Return(seen, seen.currentHop)
        ELSE IF analysis.sufficient THEN Return(seen, seen.currentHop)
        ELSE IF Len(analysis.queries) = 0 THEN Return(seen, seen.currentHop)
        ELSE [seen EXCEPT !.pc = "fanout", !.pending = analysis.queries,
                          !.generatedQueries = @ \o analysis.queries,
                          !.rounds = @ + 1]

\* lines 112-133 and 156-159: the sufficiency evaluation resolves
MHEvaluate ==
    /\ mh.pc = "evaluate"
    /\ \E analysis \in LlmAnalyses : mh' = Evaluated(mh, analysis)
    /\ UNCHANGED <<ledger, nextUuid>>
    /\ RunUnchanged

\* lines 136-159: one sub-query of the fan-out; a rejected write is caught and ends the loop
\* the hop order counted per sub-query
FanoutHopOrderPerQuery(run) == Len(run.hopIds)

\* line 140: logHop(hopId, queryId, currentHop + 1, subQuery, "LLM Generated")
FanoutHopOrder(run) == run.currentHop + 1

MHFanoutStep ==
    /\ mh.pc = "fanout"
    /\ Len(hops) < MaxHopRows
    /\ \E subResults \in HybridSearchResults(mh.index) :
      \E failAt \in 0..(Len(subResults) + 1) :
         LET subQuery == Head(mh.pending)
             hopId    == nextUuid
             run      == HopAggregate(mh, hopId, subResults, failAt)
             rest     == [run EXCEPT !.pending = Tail(@)]
         IN  /\ HopLedger(hopId, mh.queryId, FanoutHopOrder(mh), subQuery, "LLM Generated",
                          subResults, failAt)
             /\ mh' = IF HopFailed(subResults, failAt) THEN Return(rest, rest.currentHop)
                      ELSE IF rest.pending # <<>> THEN rest
                      ELSE LoopHead([rest EXCEPT !.currentHop = @ + 1])
    /\ nextUuid' = nextUuid + 1
    /\ UNCHANGED <<queries, responses, evidence_chains>>
    /\ RunUnchanged

-----------------------------------------------------------------------------
(* rag.service.ts, utils/contextWindow.ts, hybrid.service.ts, utils/formatter.ts:
   what the routes call *)

\* detectMode(message)
detectMode(message) == IF message \in GeneralTexts THEN "general" ELSE "knowledge"

RECURSIVE MaxFinalScore(_, _)
MaxFinalScore(results, n) ==
    IF n = 1 THEN results[1].finalScore
    ELSE LET m == MaxFinalScore(results, n - 1)
         IN  IF results[n].finalScore > m THEN results[n].finalScore ELSE m

\* getHighestScore: <<>> for null, else << Math.max(...finalScore) >>
getHighestScore(results) ==
    IF Len(results) = 0 THEN <<>> ELSE << MaxFinalScore(results, Len(results)) >>

\* shouldUseRag(mode, highestScore, threshold)
shouldUseRag(mode, highestScore, threshold) ==
    /\ mode = "knowledge"
    /\ highestScore # <<>>
    /\ highestScore[1] >= threshold

\* getContextFromHybridResults(results, threshold): the results kept, in order
KeptResults(results, threshold) ==
    LET idx == SelectIdx(results, LAMBDA r : r.finalScore >= threshold, 1)
    IN  [i \in 1..Len(idx) |-> results[idx[i]]]

\* context: the kept results' metadata.text
ContextOf(results, threshold) ==
    LET kept == KeptResults(results, threshold) IN [i \in 1..Len(kept) |-> kept[i].text]

\* !context.trim()
ContextBlank(context) == \A i \in 1..Len(context) : context[i] = ""

\* formatSources(rawSources)
formatSources(rawSources) ==
    [i \in 1..Len(rawSources) |-> [source |-> rawSources[i].id, score |-> rawSources[i].finalScore]]

\* the decision without its two fallback returns
RagDecisionAlwaysAnswers(mode, hybridResults) == "answer"

\* chatHelper.routes.ts lines 63-88 / 150-183: fall back unless the best score reaches the
\* threshold and the filtered context is not blank
RagDecision(mode, hybridResults) ==
    LET highestScore == getHighestScore(hybridResults)
        useRag       == shouldUseRag(mode, highestScore, RagThreshold)
        context      == ContextOf(hybridResults, RagThreshold)
    IN  IF ~useRag THEN "fallback"
        ELSE IF ContextBlank(context) THEN "fallback"
        ELSE "answer"

\* createFallbackResponse()
createFallbackResponse ==
    [status |-> 200,
     blocks |-> "I don't have that information in Cogneoverse knowledge. Try asking about general topics, or rephrase your question about our internal projects.",
     sources |-> <<>>, mode |-> "rag", request_id |-> Null]

\* createErrorResponse(error.message, requestId), sent with status 500
createErrorResponse(requestId) ==
    [status |-> 500, blocks |-> "I encountered an issue processing your request.",
     sources |-> <<>>, mode |-> "general", request_id |-> requestId]

\* the ChatResponse of a completed answer
AnswerResponse(mode, sources, requestId) ==
    [status |-> 200, blocks |-> "parsed", sources |-> sources, mode |-> mode,
     request_id |-> requestId]

NoReply == [status |-> 0, blocks |-> "", sources |-> <<>>, mode |-> "", request_id |-> Null]

\* the conversation window keeps the most recent entries
WindowSize == 6

\* getContextWindow(convId)
getContextWindow(cw, convId) == IF convId \in DOMAIN cw THEN cw[convId] ELSE <<>>

\* appendToContextWindow(convId, role, content)
appendToContextWindow(cw, convId, role, content) ==
    LET grown == Append(getContextWindow(cw, convId), [role |-> role, content |-> content])
        kept  == IF Len(grown) > WindowSize
                 THEN SubSeq(grown, Len(grown) - WindowSize + 1, Len(grown)) ELSE grown
    IN  [c \in DOMAIN cw \cup {convId} |-> IF c = convId THEN kept ELSE cw[c]]

\* the answer stored without the user turn
AppendAssistantTurn(cw, convId, message, answer) ==
    appendToContextWindow(cw, convId, "assistant", answer)

\* both turns of a completed answer
AppendTurns(cw, convId, message, answer) ==
    appendToContextWindow(appendToContextWindow(cw, convId, "user", message),
                          convId, "assistant", answer)

-----------------------------------------------------------------------------
(* chatHelper.routes.ts *)

NoRequest ==
    [kind |-> "none", phase |-> "idle", message |-> "", convId |-> <<"req", Null>>,
     requestId |-> Null, mode |-> "", sources |-> <<>>, llmCalled |-> FALSE,
     fullContent |-> <<>>, stream |-> <<>>, outcome |-> "", conversationHistory |-> <<>>]

\* what the LLM answers
LlmAnswers == {"answer"}
\* the chunks a streamed answer is made of
LlmChunks == {"to", "ken"}
\* how an LLM stream stops after its chunks: it ends, it throws, or the LLM call times
\* out, which reaches the route as an end or as a throw
StreamOutcomes == {"end", "throw", "timeout"}
\* what callLlmStream may yield: up to MaxChunks chunks, then an outcome
LlmStreams ==
    [chunks : UNION { [1..n -> LlmChunks] : n \in 0..MaxChunks }, outcome : StreamOutcomes]

Frame(type, data) == [type |-> type, data |-> data]

Idle == req.phase \in {"idle", "done"}

\* lines 23-36 / 122-138: request id, conversation id, mode
NewRequest(kind, message, conversationId, requestId) ==
    LET convId == IF conversationId = <<>> THEN <<"req", requestId>> ELSE conversationId[1]
    IN  [NoRequest EXCEPT !.kind = kind, !.message = message, !.requestId = requestId,
                          !.convId = convId,
                          !.conversationHistory = getContextWindow(contextWindow, convId),
                          !.mode = detectMode(message)]

\* what the web framework does with a handler whose promise rejects: Express 4 leaves
\* the request unanswered (status 0 here), Express 5 answers 500 from its error handler
RejectedHandlerStatus == {0, 500}

\* POST /api/chat or /api/chat/stream with no message in the body: lines 28 and 126
\* evaluate message.substring(0, 50) before the try (and, on the stream route, before
\* the SSE headers), so the handler rejects there with a TypeError
MissingMessage(kind) ==
    /\ Idle
    /\ requests < MaxRequests
    /\ req' = [NoRequest EXCEPT !.kind = kind, !.phase = "done", !.message = Undefined,
                                !.requestId = requests + 1, !.outcome = "rejected"]
    /\ \E status \in RejectedHandlerStatus : reply' = [NoReply EXCEPT !.status = status]
    /\ mh' = NoRun
    /\ requests' = requests + 1
    /\ frames' = <<>>
    /\ UNCHANGED <<ledger, lib, upserts, nextUuid, contextWindow, feedbackReply>>

ChatMissingMessage == MissingMessage("chat")
StreamMissingMessage == MissingMessage("stream")

\* POST /api/chat, lines 22-41 and 61: up to the first await
ChatBegin ==
    /\ Idle
    /\ requests < MaxRequests
    /\ \E message \in Messages, conversationId \in {<<>>} \cup { <<c>> : c \in ConversationIds } :
         LET r == NewRequest("chat", message, conversationId, requests + 1)
         IN  IF r.mode = "general"
             THEN /\ req' = [r EXCEPT !.phase = "llm", !.llmCalled = TRUE]
                  /\ mh' = NoRun
             ELSE /\ req' = [r EXCEPT !.phase = "multihop"]
                  /\ \E index \in IndexStates :
                       mh' = [NewRun(message, DefaultMaxHops, requests + 1)
                                 EXCEPT !.index = index]
    /\ requests' = requests + 1
    /\ reply' = NoReply
    /\ frames' = <<>>
    /\ UNCHANGED <<ledger, lib, upserts, nextUuid, contextWindow, feedbackReply>>

\* lines 41-57 and 92-114: the answer LLM call settles
ChatLlmSettles ==
    /\ req.kind = "chat"
    /\ req.phase = "llm"
    /\ \/ \E llmResponse \in LlmAnswers :
            /\ contextWindow' = AppendTurns(contextWindow, req.convId, req.message, llmResponse)
            /\ reply' = AnswerResponse(IF req.mode = "general" THEN "general" ELSE "rag",
                                       req.sources, req.requestId)
       \/ /\ reply' = createErrorResponse(req.requestId)
          /\ UNCHANGED contextWindow
    /\ req' = [req EXCEPT !.phase = "done"]
    /\ UNCHANGED <<ledger, lib, upserts, nextUuid, mh, frames, feedbackReply, requests>>

\* lines 61-92 and 111-114: performMultiHopSearch settled; the RAG decision
ChatAfterMultiHop ==
    /\ req.kind = "chat"
    /\ req.phase = "multihop"
    /\ mh.pc \in {"returned", "threw"}
    /\ LET hybridResults == mh.results
           rawSources    == KeptResults(hybridResults, RagThreshold)
       IN  IF mh.pc = "threw"
           THEN /\ reply' = createErrorResponse(req.requestId)
                /\ req' = [req EXCEPT !.phase = "done"]
           ELSE IF RagDecision(req.mode, hybridResults) = "fallback"
           THEN /\ reply' = createFallbackResponse
                /\ req' = [req EXCEPT !.phase = "done"]
           ELSE /\ reply' = reply
                /\ req' = [req EXCEPT !.phase = "llm", !.llmCalled = TRUE,
                                      !.sources = formatSources(rawSources)]
    /\ UNCHANGED <<ledger, lib, upserts, nextUuid, mh, frames, contextWindow, feedbackReply,
                   requests>>

FallbackText == "I don't have that information in Cogneoverse knowledge."

MetaFrame(mode, sources, requestId) ==
    Frame("meta", [mode |-> mode, sources |-> sources, request_id |-> requestId])

\* POST /api/chat/stream, lines 121-148 and 191-195: up to the first await
StreamBegin ==
    /\ Idle
    /\ requests < MaxRequests
    /\ \E message \in Messages, conversationId \in {<<>>} \cup { <<c>> : c \in ConversationIds } :
         LET r == NewRequest("stream", message, conversationId, requests + 1)
         IN  IF r.mode = "general"
             THEN /\ \E stream \in LlmStreams :
                       req' = [r EXCEPT !.phase = "streaming", !.llmCalled = TRUE,
                                        !.stream = stream.chunks,
                                        !.outcome = stream.outcome]
                  /\ frames' = << MetaFrame("general", <<>>, r.requestId) >>
                  /\ mh' = NoRun
             ELSE /\ req' = [r EXCEPT !.phase = "multihop"]
                  /\ frames' = <<>>
                  /\ \E index \in IndexStates :
                       mh' = [NewRun(message, DefaultMaxHops, requests + 1)
                                 EXCEPT !.index = index]
    /\ requests' = requests + 1
    /\ reply' = NoReply
    /\ UNCHANGED <<ledger, lib, upserts, nextUuid, contextWindow, feedbackReply>>

\* lines 148-195 and 212-216: performMultiHopSearch settled; fallback frames or the meta frame
StreamAfterMultiHop ==
    /\ req.kind = "stream"
    /\ req.phase = "multihop"
    /\ mh.pc \in {"returned", "threw"}
    /\ LET hybridResults == mh.results
           sources       == formatSources(KeptResults(hybridResults, RagThreshold))
       IN  IF mh.pc = "threw"
           THEN /\ frames' = Append(frames, Frame("error", "message"))
                /\ req' = [req EXCEPT !.phase = "done"]
           ELSE IF RagDecision(req.mode, hybridResults) = "fallback"
           THEN /\ frames' = frames \o << Frame("chunk", FallbackText), Frame("done", "") >>
                /\ req' = [req EXCEPT !.phase = "done"]
           ELSE /\ frames' = Append(frames, MetaFrame("rag", sources, req.requestId))
                /\ \E stream \in LlmStreams :
                     req' = [req EXCEPT !.phase = "streaming", !.llmCalled = TRUE,
                                        !.sources = sources, !.stream = stream.chunks,
                                        !.outcome = stream.outcome]
    /\ UNCHANGED <<ledger, lib, upserts, nextUuid, mh, reply, contextWindow, feedbackReply,
                   requests>>

\* the accumulation with its operands swapped
AccumulateInFront(fullContent, chunk) == <<chunk>> \o fullContent

\* fullContent += chunk (a string kept as the sequence of its chunks)
Accumulate(fullContent, chunk) == Append(fullContent, chunk)

\* lines 197-200: one chunk of the LLM stream
StreamChunk ==
    /\ req.kind = "stream"
    /\ req.phase = "streaming"
    /\ Len(req.fullContent) < Len(req.stream)
    /\ LET chunk == req.stream[Len(req.fullContent) + 1]
       IN  /\ req' = [req EXCEPT !.fullContent = Accumulate(@, chunk)]
           /\ frames' = Append(frames, Frame("chunk", chunk))
    /\ UNCHANGED <<ledger, lib, upserts, nextUuid, mh, reply, contextWindow, feedbackReply,
                   requests>>

\* lines 202-210: the LLM stream ends
StreamEnd ==
    /\ req.kind = "stream"
    /\ req.phase = "streaming"
    /\ Len(req.fullContent) = Len(req.stream)
    /\ req.outcome \in {"end", "timeout"}
    /\ contextWindow' = AppendTurns(contextWindow, req.convId, req.message, req.fullContent)
    /\ frames' = Append(frames, Frame("done", ""))
    /\ req' = [req EXCEPT !.phase = "done"]
    /\ UNCHANGED <<ledger, lib, upserts, nextUuid, mh, reply, feedbackReply, requests>>

\* the catch that closes the stream without a frame
StreamErrorSilent ==
    /\ req.kind = "stream"
    /\ req.phase = "streaming"
    /\ Len(req.fullContent) = Len(req.stream)
    /\ req.outcome \in {"throw", "timeout"}
    /\ req' = [req EXCEPT !.phase = "done"]
    /\ UNCHANGED <<ledger, lib, upserts, nextUuid, mh, reply, contextWindow, feedbackReply,
                   requests, frames>>

\* lines 212-216: the LLM call or stream throws
StreamError ==
    /\ req.kind = "stream"
    /\ req.phase = "streaming"
    /\ Len(req.fullContent) = Len(req.stream)
    /\ req.outcome \in {"throw", "timeout"}
    /\ frames' = Append(frames, Frame("error", "message"))
    /\ req' = [req EXCEPT !.phase = "done"]
    /\ UNCHANGED <<ledger, lib, upserts, nextUuid, mh, reply, contextWindow, feedbackReply,
                   requests>>

-----------------------------------------------------------------------------
(* chatHelper.routes.ts: concurrent requests, as ConversationMemory sees them.  A    *)
(* handler runs from its start to its first await in one step, and from the  *)
(* settling of its last await to its end in one step: the two appends of lines *)
(* 47-48, 99-100 and 203-204 are synchronous and run in the same step.         *)

\* chat requests in flight at once
MaxHandlers == 2
\* chat requests started in one behaviour
MaxTurns == 4

NoHandler ==
    [phase |-> "idle", kind |-> "none", message |-> "", conversationId |-> <<>>,
     requestId |-> Null, overlapped |-> FALSE]

NoHandlers == [begun |-> 0, slots |-> [c \in 1..MaxHandlers |-> NoHandler]]

\* every conversation under one key
ConvIdShared(conversationId, requestId) == <<"conv", 1>>

\* lines 26 and 124: const convId = conversation_id || requestId
ConvId(conversationId, requestId) ==
    IF conversationId = <<>> THEN <<"req", requestId>> ELSE conversationId[1]

\* what a handler appends as the assistant entry, kept as the sequence of its chunks:
\* the LLM response (one piece), or the fullContent of a stream that ended
CompletedAnswers(kind) ==
    IF kind = "chat" THEN { <<answer>> : answer \in LlmAnswers } ELSE { <<"to", "ken">> }

HandlersUnchanged ==
    UNCHANGED <<ledger, upserts, nextUuid, mh, req, reply, frames, feedbackReply, requests,
                submitted, writers, ledgerCall, units>>

\* lines 22-41 / 121-136: a request arrives and runs up to its first await; overlapped is
\* whether another request on the same conversation is in flight
HandlerBegin(c) ==
    /\ handlers.slots[c].phase \in {"idle", "done"}
    /\ handlers.begun < MaxTurns
    /\ \E kind \in {"chat", "stream"}, message \in Messages,
          conversationId \in {<<>>} \cup { <<k>> : k \in ConversationIds } :
         LET requestId == handlers.begun + 1
             overlapped ==
                 \E o \in 1..MaxHandlers :
                    /\ o # c
                    /\ handlers.slots[o].phase = "awaiting"
                    /\ ConvId(handlers.slots[o].conversationId, handlers.slots[o].requestId)
                          = ConvId(conversationId, requestId)
         IN  handlers' = [begun |-> requestId,
                          slots |-> [handlers.slots EXCEPT ![c] =
                                        [phase |-> "awaiting", kind |-> kind,
                                         message |-> message,
                                         conversationId |-> conversationId,
                                         requestId |-> requestId,
                                         overlapped |-> overlapped]]]
    /\ UNCHANGED contextWindow
    /\ HandlersUnchanged

\* lines 46-57, 98-109, 202-208: the LLM answer completed: both entries are appended
HandlerCompletes(c) ==
    /\ handlers.slots[c].phase = "awaiting"
    /\ LET h == handlers.slots[c]
       IN  \E answer \in CompletedAnswers(h.kind) :
              contextWindow' = AppendTurns(contextWindow, ConvId(h.conversationId, h.requestId),
                                           h.message, answer)
    /\ handlers' = [handlers EXCEPT !.slots[c].phase = "done"]
    /\ HandlersUnchanged

\* lines 76-78, 84-87, 111-114, 168-182, 212-215: the request ends in the fallback, in
\* an error response, or with a stream that threw
HandlerGivesUp(c) ==
    /\ handlers.slots[c].phase = "awaiting"
    /\ handlers' = [handlers EXCEPT !.slots[c].phase = "done"]
    /\ UNCHANGED contextWindow
    /\ HandlersUnchanged

\* a caller of the exported service: performMultiHopSearch(originalQuery, maxHops)
DirectCall(maxHopsArgs) ==
    /\ Idle
    /\ requests < MaxRequests
    /\ \E originalQuery \in QueryTexts, maxHops \in maxHopsArgs :
         /\ req' = [NoRequest EXCEPT !.kind = "direct", !.phase = "multihop",
                                     !.message = originalQuery, !.mode = "knowledge"]
         /\ mh' = NewRun(originalQuery, maxHops, requests + 1)
    /\ requests' = requests + 1
    /\ reply' = NoReply
    /\ frames' = <<>>
    /\ UNCHANGED <<ledger, lib, upserts, nextUuid, contextWindow, feedbackReply>>

\* a direct call with any maxHops
DirectBegin == DirectCall(0..MaxHopsArg)

\* the direct caller's await settles
DirectEnd ==
    /\ req.kind = "direct"
    /\ req.phase = "multihop"
    /\ mh.pc \in {"returned", "threw"}
    /\ req' = [req EXCEPT !.phase = "done"]
    /\ UNCHANGED <<ledger, lib, upserts, nextUuid, mh, reply, frames, contextWindow, feedbackReply,
                   requests>>

-----------------------------------------------------------------------------
(* The ledger under concurrent performMultiHopSearch calls, write by write          *)
(* (multihop.service.ts 35-99, 136-147; feedback.service.ts 25-72; cache.ts 64-130) *)

\* a call that has not started: pc is the await it is at, hopsRun the hops it has logged,
\* docsLeft and rank the results of the current hop still to log and the next rank
NoWriter ==
    [pc |-> "idle", queryId |-> Null, hopId |-> Null, hopsRun |-> 0, docsLeft |-> 0,
     rank |-> 0]

NoWriters == [w \in 1..MaxWriters |-> NoWriter]

\* the ids of the rows of a table
Ids(table) == { table[i].id : i \in 1..Len(table) }

\* where a failed await of hop number hop (0 the first) leaves the call: the replay loop
\* and the initial hop have no try around them, the fan-out loop catches and breaks
FailureExits(hop) == IF hop = 0 THEN {"threw"} ELSE {"threw", "returned"}

NoLedgerCall == [op |-> "none", id |-> Null, rejected |-> FALSE]

\* id TEXT PRIMARY KEY: an INSERT with a key the table holds violates the constraint
KeyTaken(table, id) == id \in Ids(table)

\* run(sql, params) of an INSERT keyed by id: db.run reports the constraint violation,
\* or any other database error, and the promise rejects
InsertRejects(table, id, dbFails) == dbFails \/ KeyTaken(table, id)

\* the hop id logHopDocument is called with: a fresh uuid instead of the hop's
HopKeyFresh(writer) == nextUuid

\* the hop id logHopDocument is called with (lines 64, 94, 146)
HopKey(writer) == writer.hopId

LedgerUnchanged ==
    UNCHANGED <<upserts, mh, req, reply, frames, contextWindow, feedbackReply, requests,
                submitted, units, handlers>>

\* line 35: the call starts and draws its queryId
WriterBegin(w) ==
    /\ writers[w].pc = "idle"
    /\ writers' = [writers EXCEPT ![w] = [@ EXCEPT !.pc = "logQuery", !.queryId = nextUuid]]
    /\ nextUuid' = nextUuid + 1
    /\ UNCHANGED <<ledger, ledgerCall>>
    /\ LedgerUnchanged

\* line 39: await logQuery; a rejection rejects the call
WriterLogQuery(w) ==
    /\ writers[w].pc = "logQuery"
    /\ \E text \in {"qa"}, dbFails \in BOOLEAN :
         IF InsertRejects(queries, writers[w].queryId, dbFails)
         THEN /\ writers' = [writers EXCEPT ![w] = [@ EXCEPT !.pc = "threw"]]
              /\ UNCHANGED queries
         ELSE /\ queries' = Append(queries, QueryRow(writers[w].queryId, text))
              /\ writers' = [writers EXCEPT ![w] = [@ EXCEPT !.pc = "logHop"]]
    /\ UNCHANGED <<hops, hop_documents, responses, evidence_chains, nextUuid, ledgerCall>>
    /\ LedgerUnchanged

\* lines 53-55, 86-88, 137-140: a hop id is drawn and logHop awaited; a rejection rejects
\* the call (replay, initial hop) or leaves the loop through its catch (fan-out)
WriterLogHop(w) ==
    /\ writers[w].pc = "logHop"
    /\ \E subQuery \in {"qa"}, dbFails \in BOOLEAN :
         LET hopId == nextUuid
         IN  IF InsertRejects(hops, hopId, dbFails)
             THEN /\ \E exit \in FailureExits(writers[w].hopsRun) :
                       writers' = [writers EXCEPT ![w] = [@ EXCEPT !.pc = exit,
                                                                   !.hopId = hopId]]
                  /\ UNCHANGED hops
             ELSE /\ hops' = Append(hops, HopRow(hopId, writers[w].queryId,
                                                 writers[w].hopsRun, subQuery, ""))
                  /\ writers' = [writers EXCEPT ![w] =
                                    [@ EXCEPT !.pc = "search", !.hopId = hopId,
                                              !.hopsRun = @ + 1]]
    /\ nextUuid' = nextUuid + 1
    /\ UNCHANGED <<queries, hop_documents, responses, evidence_chains, ledgerCall>>
    /\ LedgerUnchanged

\* lines 58, 90, 142: await performHybridSearch settles with some results, or rejects
WriterSearch(w) ==
    /\ writers[w].pc = "search"
    /\ \/ \E n \in 0..MaxWriterDocs :
            writers' = [writers EXCEPT ![w] = [@ EXCEPT !.pc = "logHopDocument",
                                                        !.docsLeft = n, !.rank = 1]]
       \/ \E exit \in FailureExits(writers[w].hopsRun - 1) :
            writers' = [writers EXCEPT ![w] = [@ EXCEPT !.pc = exit]]
    /\ UNCHANGED <<ledger, nextUuid, ledgerCall>>
    /\ LedgerUnchanged

\* lines 63-64, 93-94, 145-146: await logHopDocument for the next result
WriterLogHopDocument(w) ==
    /\ writers[w].pc = "logHopDocument"
    /\ writers[w].docsLeft > 0
    /\ \E res \in {DocHigh}, dbFails \in BOOLEAN :
         IF dbFails
         THEN /\ \E exit \in FailureExits(writers[w].hopsRun - 1) :
                   writers' = [writers EXCEPT ![w] = [@ EXCEPT !.pc = exit]]
              /\ UNCHANGED hop_documents
         ELSE /\ hop_documents' = Append(hop_documents,
                                         HopDocumentRow(HopKey(writers[w]), res,
                                                        writers[w].rank))
              /\ writers' = [writers EXCEPT ![w] = [@ EXCEPT !.docsLeft = @ - 1,
                                                             !.rank = @ + 1]]
    /\ UNCHANGED <<queries, hops, responses, evidence_chains, nextUuid, ledgerCall>>
    /\ LedgerUnchanged

\* the results of the hop are logged: the next template step or sub-query follows, or
\* the call returns
WriterHopEnds(w) ==
    /\ writers[w].pc = "logHopDocument"
    /\ writers[w].docsLeft = 0
    /\ \E more \in BOOLEAN :
         writers' = [writers EXCEPT ![w] =
                        [@ EXCEPT !.pc = IF more /\ writers[w].hopsRun < MaxWriterHops
                                         THEN "logHop" ELSE "returned"]]
    /\ UNCHANGED <<ledger, nextUuid, ledgerCall>>
    /\ LedgerUnchanged

\* the caller of a call that returned records its answer: logResponse
WriterLogResponse(w) ==
    /\ writers[w].pc = "returned"
    /\ Len(responses) < MaxResponses
    /\ responses' = Append(responses, ResponseRow(Len(responses) + 1, writers[w].queryId))
    /\ writers' = [writers EXCEPT ![w] = [@ EXCEPT !.pc = "answered"]]
    /\ UNCHANGED <<queries, hops, hop_documents, evidence_chains, nextUuid, ledgerCall>>
    /\ LedgerUnchanged

\* a caller-issued INSERT keyed by id, with no other database error: the table after
\* it and whether the promise rejected
Inserted(table, row) ==
    IF InsertRejects(table, row.id, FALSE)
    THEN [table |-> table, rejected |-> TRUE]
    ELSE [table |-> Append(table, row), rejected |-> FALSE]

\* logQuery called once more with the id and text of a logged query
RepeatLogQuery ==
    /\ \E q \in Range(queries) :
         LET done == Inserted(queries, QueryRow(q.id, q.text))
         IN  /\ queries' = done.table
             /\ ledgerCall' = [op |-> "logQuery", id |-> q.id, rejected |-> done.rejected]
    /\ UNCHANGED <<hops, hop_documents, responses, evidence_chains, nextUuid, writers>>
    /\ LedgerUnchanged

\* logHop called once more with the arguments of a logged hop
RepeatLogHop ==
    /\ \E h \in Range(hops) :
         LET done == Inserted(hops, HopRow(h.id, h.query_id, h.hop_order, h.sub_query,
                                           h.reasoning))
         IN  /\ hops' = done.table
             /\ ledgerCall' = [op |-> "logHop", id |-> h.id, rejected |-> done.rejected]
    /\ UNCHANGED <<queries, hop_documents, responses, evidence_chains, nextUuid, writers>>
    /\ LedgerUnchanged

\* logResponse called once more with the arguments of a logged response
RepeatLogResponse ==
    /\ \E r \in Range(responses) :
         LET done == Inserted(responses, ResponseRow(r.id, r.query_id))
         IN  /\ responses' = done.table
             /\ ledgerCall' = [op |-> "logResponse", id |-> r.id, rejected |-> done.rejected]
    /\ UNCHANGED <<queries, hops, hop_documents, evidence_chains, nextUuid, writers>>
    /\ LedgerUnchanged

-----------------------------------------------------------------------------
(* feedback.routes.ts and the exported ledger writes *)


\* what injectCorrection may run into
InjectOutcomes == {"ok", "embedding fails", "upsert fails"}

\* injectCorrection upserting whatever generateEmbedding gave
injectCorrectionBlind(ups, uuid, text, outcome) ==
    Append(ups, [vector |-> CorrectionVector(uuid, text), ok |-> outcome = "ok"])

\* injectCorrection(text): the upsert attempted (none when the embedding fails)
injectCorrection(ups, uuid, text, outcome) ==
    IF outcome = "embedding fails" THEN ups
    ELSE Append(ups, [vector |-> CorrectionVector(uuid, text), ok |-> outcome = "ok"])

\* the bodies POST /api/feedback may receive for the responses of the ledger
FeedbackBodies(responseIds, givens, feedbacks, corrections) ==
    [response_id : responseIds, given : givens, feedback : feedbacks, correction : corrections]

\* a client that has traced no request yet
NoSubmit ==
    [count |-> 0,
     body |-> [response_id |-> Null, given |-> FALSE, feedback |-> 0, correction |-> ""],
     inject |-> "none", analyses |-> 0, before |-> 0, beforeCorrection |-> NullText]

\* the trace after one more request: inject is "not called" when the route answered
\* without calling submitFeedback, "not reached" when submitFeedback rejected before
\* line 125, "none" when line 125 skipped injectCorrection, else what injectCorrection
\* met; analysed is whether handleNegativeFeedback ran; before is the user_feedback
\* the response had when the request arrived (0 when there is no such response)
FeedbackOf(rs, responseId) ==
    IF \E i \in 1..Len(rs) : rs[i].id = responseId
    THEN rs[CHOOSE i \in 1..Len(rs) : rs[i].id = responseId].user_feedback
    ELSE 0

\* the user_correction the response had when the request arrived
CorrectionOf(rs, responseId) ==
    IF \E i \in 1..Len(rs) : rs[i].id = responseId
    THEN rs[CHOOSE i \in 1..Len(rs) : rs[i].id = responseId].user_correction
    ELSE NullText

Traced(body, inject, analysed) ==
    [count |-> submitted.count + 1, body |-> body, inject |-> inject,
     analyses |-> submitted.analyses + (IF analysed THEN 1 ELSE 0),
     before |-> FeedbackOf(responses, body.response_id),
     beforeCorrection |-> CorrectionOf(responses, body.response_id)]

\* the analysis run on every feedback value
NeedsAnalysisAlways(feedback) == TRUE

\* feedback === -1
NeedsAnalysis(feedback) == feedback = -1

\* POST /api/feedback: validation, then submitFeedback (UPDATE responses,
\* handleNegativeFeedback on -1, injectCorrection on a long enough correction);
\* traced is whether the client keeps a trace of the request
FeedbackRequest(bodies, traced) ==
    /\ traced => submitted.count < MaxSubmits
    /\ \E body \in bodies :
       IF body.response_id = Null \/ ~body.given
       THEN /\ feedbackReply' = 400
            /\ submitted' = IF traced THEN Traced(body, "not called", FALSE) ELSE submitted
            /\ UNCHANGED <<ledger, units, writers, ledgerCall, handlers, upserts, nextUuid>>
            /\ UNCHANGED <<mh, req, reply, frames, contextWindow, requests>>
       ELSE \E updateRejects \in BOOLEAN :
            IF updateRejects
            THEN /\ feedbackReply' = 500
                 /\ submitted' = IF traced THEN Traced(body, "not reached", FALSE) ELSE submitted
                 /\ UNCHANGED <<ledger, units, writers, ledgerCall, handlers, upserts, nextUuid>>
                 /\ UNCHANGED <<mh, req, reply, frames, contextWindow, requests>>
            ELSE /\ ShouldInject(body.correction) => Len(upserts) < MaxUpserts
                 /\ responses' = UpdateFeedback(responses, body.response_id, body.feedback,
                                                body.correction)
                 /\ hops' = IF NeedsAnalysis(body.feedback)
                            THEN handleNegativeFeedback(hops, hop_documents, evidence_chains,
                                                        body.response_id)
                            ELSE hops
                 /\ \E outcome \in IF ShouldInject(body.correction) THEN InjectOutcomes
                                    ELSE {"none"} :
                       /\ upserts' = IF ShouldInject(body.correction)
                                     THEN injectCorrection(upserts, Len(upserts) + 1,
                                                           body.correction, outcome)
                                     ELSE upserts
                       /\ submitted' = IF traced
                                       THEN Traced(body, outcome,
                                                   NeedsAnalysis(body.feedback))
                                       ELSE submitted
                 /\ feedbackReply' = 200
                 /\ UNCHANGED <<queries, hop_documents, evidence_chains, nextUuid, units,
                                writers, ledgerCall, handlers>>
                 /\ UNCHANGED <<mh, req, reply, frames, contextWindow, requests>>

\* POST /api/feedback with a response id and a feedback value, no correction
PostFeedback ==
    FeedbackRequest(FeedbackBodies(Ids(responses), {TRUE}, FeedbackValues, {""}), FALSE)

\* POST /api/feedback with a thumbs-up and no correction
PositiveFeedback ==
    FeedbackRequest(FeedbackBodies(Ids(responses), {TRUE}, {1}, {""}), FALSE)

\* POST /api/feedback with any body a client may send, traced
SubmitFeedback ==
    FeedbackRequest(FeedbackBodies(Ids(responses) \cup {Null}, {TRUE}, FeedbackValues,
                                   Corrections)
                    \cup FeedbackBodies(Ids(responses) \cup {Null}, {FALSE}, {0},
                                        Corrections), TRUE)

\* the caller that records a completed answer: logResponse for the run that has just
\* returned and, unless that write is skipped, logEvidenceChain with the run's hopIds
LogAnswer(withChains) ==
    /\ Len(responses) < MaxResponses
    /\ mh.pc = "returned"
    /\ \E withChain \in withChains :
         LET responseId == Len(responses) + 1
         IN  /\ responses' = Append(responses, ResponseRow(responseId, mh.queryId))
             /\ evidence_chains' = IF withChain
                                   THEN Append(evidence_chains,
                                               EvidenceChainRow(responseId, mh.hopIds))
                                   ELSE evidence_chains
    /\ UNCHANGED <<queries, hops, hop_documents, upserts, nextUuid, lib>>
    /\ UNCHANGED <<mh, req, reply, frames, contextWindow, feedbackReply, requests>>

\* logResponse alone
LogResponse == LogAnswer({FALSE})

\* logResponse, with or without logEvidenceChain
RecordAnswer == LogAnswer(BOOLEAN)

-----------------------------------------------------------------------------
(* The per-document feedback score: feedback.service.ts getDocumentGlobalScore *)

\* line 84: CASE WHEN r.user_feedback = 1 THEN 1 WHEN r.user_feedback = -1 THEN -1 ELSE 0
CaseValue(userFeedback) ==
    IF userFeedback = 1 THEN 1 ELSE IF userFeedback = -1 THEN -1 ELSE 0

\* lines 86-90: FROM responses r JOIN queries q JOIN hops h JOIN hop_documents hd
\* WHERE hd.document_id = ? AND r.user_feedback != 0; one CASE value per joined row
FeedbackJoin(rs, qs, hs, hds, documentId) ==
    LET DocsOf(r, h) == ConcatMap(hds, LAMBDA hd :
                            IF hd.hop_id = h.id /\ hd.document_id = documentId
                                                /\ r.user_feedback # 0
                            THEN << CaseValue(r.user_feedback) >> ELSE <<>>, 1)
        HopsOf(r, q) == ConcatMap(hs, LAMBDA h :
                            IF h.query_id = q.id THEN DocsOf(r, h) ELSE <<>>, 1)
        QueriesOf(r) == ConcatMap(qs, LAMBDA q :
                            IF r.query_id = q.id THEN HopsOf(r, q) ELSE <<>>, 1)
    IN  ConcatMap(rs, QueriesOf, 1)

RECURSIVE Sum(_, _)
\* SUM(...) over the first n rows
Sum(rows, n) == IF n = 0 THEN 0 ELSE Sum(rows, n - 1) + rows[n]

\* lines 82-95: rawScore; 0 stands for the NULL of an empty join, for which the
\* function returns 0 as it does for rawScore = 0
RawScore(rs, qs, hs, hds, documentId) ==
    LET rows == FeedbackJoin(rs, qs, hs, hds, documentId)
    IN  Sum(rows, Len(rows))

\* largest |rawScore| and latest day (Date.now(), in days) of an evaluation
MaxRaw == 5
MaxDays == 6

\* Math.tanh(n / 10.0) for n = 1..8, in thousandths
TanhTenths == <<100, 197, 291, 380, 462, 537, 604, 664>>

\* line 99: Math.tanh(rawScore / 10.0), in thousandths (tanh is odd)
Tanh(rawScore) ==
    IF rawScore = 0 THEN 0
    ELSE IF rawScore > 0 THEN TanhTenths[rawScore] ELSE -TanhTenths[-rawScore]

\* Math.exp(-0.1 * n) for n = 1..8, in thousandths
ExpTenths == <<905, 819, 741, 670, 607, 549, 497, 449>>

DecayInverted(daysSince) == IF daysSince = 0 THEN 1000 ELSE 2000 - ExpTenths[daysSince]

\* lines 102-104: Math.exp(-lambda * daysSince) with lambda = 0.1, in thousandths
Decay(daysSince) == IF daysSince = 0 THEN 1000 ELSE ExpTenths[daysSince]

\* lines 95-106: the score for a raw score and the time of the last feedback (Null: the
\* column is NULL or 0, and Date.now() takes its place), in millionths
effectiveScore(rawScore, lastFeedbackTime, now) ==
    LET lastTime == IF lastFeedbackTime = Null THEN now ELSE lastFeedbackTime
    IN  Tanh(rawScore) * Decay(now - lastTime)

NoScore == [pc |-> "idle", rawScore |-> 0, lastTime |-> 0, now |-> 0, value |-> 0,
            step |-> "", prev |-> 0]

ScoreUnchanged == UNCHANGED <<app, hybrid, parsed, cache, embedding>>

\* getDocumentGlobalScore(d) for a document whose join yields rawScore and lastTime
ScoreFirst ==
    /\ score.pc = "idle"
    /\ \E rawScore \in (-MaxRaw)..MaxRaw, lastTime \in 1..3 :
          score' = [pc |-> "scored", rawScore |-> rawScore, lastTime |-> lastTime,
                    now |-> lastTime, value |-> effectiveScore(rawScore, lastTime, lastTime),
                    step |-> "first", prev |-> 0]
    /\ ScoreUnchanged

\* the same call a day later, the ledger unchanged
ScoreLater ==
    /\ score.pc = "scored"
    /\ score.now < MaxDays
    /\ score' = [score EXCEPT !.now = @ + 1,
                              !.value = effectiveScore(score.rawScore, score.lastTime,
                                                       score.now + 1),
                              !.step = "later", !.prev = score.value]
    /\ ScoreUnchanged

\* the same call at the same time after one more response linked to the document, not
\* newer than the newest one, got a thumbs-up or a thumbs-down
ScoreAfterFeedback ==
    /\ score.pc = "scored"
    /\ \E userFeedback \in {-1, 1} :
          /\ score.rawScore + userFeedback \in (-MaxRaw)..MaxRaw
          /\ score' = [score EXCEPT !.rawScore = @ + userFeedback,
                                    !.value = effectiveScore(score.rawScore + userFeedback,
                                                             score.lastTime, score.now),
                                    !.step = "feedback", !.prev = score.value]
    /\ ScoreUnchanged

-----------------------------------------------------------------------------
(* utils/formatter.ts parseLlmJsonResponse.  An LLM output is a body between an *)
(* optional opening fence and an optional closing fence, fences being lexeme    *)
(* sequences; a body is named by the value JSON.parse gives for it.             *)

\* elements of a blocks array in one output
MaxBlocks == 2

\* what may precede the body: nothing, a fence followed by json, a bare fence and a fence followed by JSON
\* (which startsWith does not take for the json fence)
OpeningFences == { <<>>, <<"fence", "json">>, <<"fence">>, <<"fence", "JSON">> }

\* what may follow the body: nothing and a fence
ClosingFences == { <<>>, <<"fence">> }

\* JSON values an element of blocks may be
BlockElements ==
    { [kind |-> "null"], [kind |-> "number"], [kind |-> "string"] }
    \cup [kind : {"object"}, type : {Undefined, "list"}, content : {Undefined, "text"},
          items : {Undefined}, language : {Undefined}]

\* values of the property blocks of a JSON object
BlocksValues ==
    { [kind |-> Undefined], [kind |-> "null"], [kind |-> "string"] }
    \cup [kind : {"array"}, elements : UNION { [1..n -> BlockElements] : n \in 0..MaxBlocks }]

\* bodies: text that is no JSON, and JSON texts by their value
Bodies ==
    { [kind |-> "invalid"], [kind |-> "null"], [kind |-> "number"], [kind |-> "string"],
      [kind |-> "array"] }
    \cup [kind : {"object"}, blocks : BlocksValues]

LlmOutputs == [open : OpeningFences, body : Bodies, close : ClosingFences]

StartsWith(lexemes, prefix) ==
    Len(lexemes) >= Len(prefix) /\ SubSeq(lexemes, 1, Len(prefix)) = prefix

\* lines 7-14: the opening and the closing fence are cut off
StripFences(llmOutput) ==
    [llmOutput EXCEPT
        !.open = IF StartsWith(@, <<"fence", "json">>) THEN SubSeq(@, 3, Len(@))
                 ELSE IF StartsWith(@, <<"fence">>) THEN SubSeq(@, 2, Len(@))
                 ELSE @,
        !.close = IF @ = <<"fence">> THEN <<>> ELSE @]

\* line 19: JSON.parse(cleaned) throws a SyntaxError unless cleaned is one JSON text
JsonParse(cleaned) ==
    IF cleaned.open = <<>> /\ cleaned.close = <<>> /\ cleaned.body.kind # "invalid"
    THEN cleaned.body
    ELSE [kind |-> "SyntaxError"]

\* lines 23, 28, 39: the raw text wrapped as one paragraph
RawParagraph(llmOutput) == << [type |-> "paragraph", content |-> llmOutput] >>

\* lines 31-36: the block made of element b; the properties of a number or a string
\* are undefined
BlockOf(b) ==
    IF b.kind = "object"
    THEN [type |-> IF b.type = Undefined THEN "paragraph" ELSE b.type,
          content |-> b.content, items |-> b.items, language |-> b.language]
    ELSE [type |-> "paragraph", content |-> Undefined, items |-> Undefined,
          language |-> Undefined]

\* line 32: b.type of a null element throws a TypeError
MapThrows(blocksData) == \E i \in 1..Len(blocksData) : blocksData[i].kind = "null"

\* lines 31-39: blocksData.map(...), or the catch when the callback throws
MapBlocks(blocksData, llmOutput) ==
    IF MapThrows(blocksData) THEN RawParagraph(llmOutput)
    ELSE [i \in 1..Len(blocksData) |-> BlockOf(blocksData[i])]

\* lines 3-41: the blocks returned for an output
ParsedBlocks(llmOutput) ==
    LET data == JsonParse(StripFences(llmOutput))
    IN  IF data.kind = "SyntaxError" THEN RawParagraph(llmOutput)
        ELSE IF data.kind # "object" THEN RawParagraph(llmOutput)
        ELSE IF data.blocks.kind # "array" THEN RawParagraph(llmOutput)
        ELSE MapBlocks(data.blocks.elements, llmOutput)

NoParse == [pc |-> "idle", llmOutput |-> [open |-> <<>>, body |-> [kind |-> "invalid"],
                                           close |-> <<>>],
            threw |-> FALSE, blocks |-> <<>>]

\* a call of parseLlmJsonResponse(llmOutput); no statement outside the try throws for a
\* string
parseLlmJsonResponse ==
    /\ parsed.pc = "idle"
    /\ \E llmOutput \in LlmOutputs :
          parsed' = [pc |-> "returned", llmOutput |-> llmOutput, threw |-> FALSE,
                     blocks |-> ParsedBlocks(llmOutput)]
    /\ UNCHANGED <<app, hybrid, score, cache, embedding>>

-----------------------------------------------------------------------------
(* utils/cache.ts LRUCache and services/embedding.service.ts.  The Map is the  *)
(* sequence of its entries in insertion order.  The service constructs its    *)
(* cache with new LRUCache(100); the model constructs it with every maxSize   *)
(* from 1 to MaxCacheSize, so that a full cache is reached with three texts.  *)

\* largest maxSize a cache is constructed with
MaxCacheSize == 2
\* generateEmbedding calls that may be in flight together
MaxCalls == 2

\* keys of the cache: the texts embedded
Texts == {"ta", "tb", "tc"}

\* the embedding the pipe computes for a text (different texts, different vectors)
Embedding(text) == IF text = "ta" THEN 1 ELSE IF text = "tb" THEN 2 ELSE 3

\* values set directly
CacheValues == {1, 4}

\* uses: the keys ever used (a get hit or a set), least recently used first
NoCache == [pc |-> "none", maxSize |-> 0, entries |-> <<>>,
            last |-> [op |-> "", key |-> "", value |-> Null, evicted |-> ""],
            uses |-> <<>>]

\* the record of uses after key is used once more
Touch(uses, key) == Append(SelectSeq(uses, LAMBDA k : k # key), key)

\* this.cache.has(key)
Has(entries, key) == \E i \in 1..Len(entries) : entries[i].key = key

\* this.cache.get(key)
ValueOf(entries, key) ==
    LET i == CHOOSE i \in 1..Len(entries) : entries[i].key = key IN entries[i].value

\* this.cache.delete(key)
Delete(entries, key) == SelectSeq(entries, LAMBDA e : e.key # key)

\* line 28, off by one
FullBeyond(entries, maxSize) == Len(entries) > maxSize

\* line 28: this.cache.size >= this.maxSize
Full(entries, maxSize) == Len(entries) >= maxSize

\* get without lines 19-20
AfterGetInPlace(entries, key) == entries

\* lines 13-22: the Map after get(key)
AfterGet(entries, key) ==
    IF ~Has(entries, key) THEN entries
    ELSE Append(Delete(entries, key), [key |-> key, value |-> ValueOf(entries, key)])

\* lines 13-22: what get(key) returns (Null: undefined)
GetResult(entries, key) == IF Has(entries, key) THEN ValueOf(entries, key) ELSE Null

\* lines 28-33: the key set(key, ...) evicts ("": none)
Evicted(entries, maxSize, key) ==
    IF ~Has(entries, key) /\ Full(entries, maxSize) /\ Len(entries) > 0
    THEN entries[1].key ELSE ""

\* lines 24-36: the Map after set(key, value)
AfterSet(entries, maxSize, key, value) ==
    LET kept == IF Has(entries, key) THEN Delete(entries, key)
                ELSE IF Full(entries, maxSize) /\ Len(entries) > 0 THEN Tail(entries)
                ELSE entries
    IN  Append(kept, [key |-> key, value |-> value])

\* the cache after get(key)
CacheAfterGet(c, key) ==
    [c EXCEPT !.entries = AfterGet(c.entries, key),
              !.last = [op |-> "get", key |-> key, value |-> GetResult(c.entries, key),
                        evicted |-> ""],
              !.uses = IF Has(c.entries, key) THEN Touch(c.uses, key) ELSE c.uses]

\* the cache after set(key, value)
CacheAfterSet(c, key, value) ==
    [c EXCEPT !.entries = AfterSet(c.entries, c.maxSize, key, value),
              !.last = [op |-> "set", key |-> key, value |-> value,
                        evicted |-> Evicted(c.entries, c.maxSize, key)],
              !.uses = Touch(c.uses, key)]

NoCall == [pc |-> "idle", text |-> "", overlapped |-> FALSE]

\* pipe: this.pipe is set; loads: how many pipeline(...) loads resolved and were assigned
\* to this.pipe; startup: the init() call of the process start-up
NoEmbedding ==
    [pipe |-> FALSE, loads |-> 0, startup |-> "none",
     calls |-> [c \in 1..MaxCalls |-> NoCall]]

InFlight(call) == call.pc \in {"init", "generate"}

\* lines 9-11 of cache.ts, line 10 of embedding.service.ts: new LRUCache(maxSize)
CacheNew ==
    /\ cache.pc = "none"
    /\ \E maxSize \in 1..MaxCacheSize :
          cache' = [NoCache EXCEPT !.pc = "live", !.maxSize = maxSize, !.last.op = "new"]
    /\ UNCHANGED <<app, hybrid, score, parsed, embedding>>

\* LRUCache.get(key)
CacheGet ==
    /\ cache.pc = "live"
    /\ \E key \in Texts : cache' = CacheAfterGet(cache, key)
    /\ UNCHANGED <<app, hybrid, score, parsed, embedding>>

\* LRUCache.set(key, value)
CacheSet ==
    /\ cache.pc = "live"
    /\ \E key \in Texts, value \in CacheValues : cache' = CacheAfterSet(cache, key, value)
    /\ UNCHANGED <<app, hybrid, score, parsed, embedding>>

\* embedding.service.ts lines 31-45: generateEmbedding(text) up to its first await, or
\* to the return of a cache hit
EmbedBegin ==
    /\ cache.pc = "live"
    /\ \E c \in 1..MaxCalls, text \in Texts :
          /\ ~InFlight(embedding.calls[c])
          /\ cache' = CacheAfterGet(cache, text)
          /\ LET overlapped == \E o \in 1..MaxCalls : o # c /\ InFlight(embedding.calls[o])
                 pc == IF GetResult(cache.entries, text) # Null THEN "returned"
                       ELSE IF ~embedding.pipe THEN "init" ELSE "generate"
             IN  embedding' = [embedding EXCEPT
                                  !.calls[c] = [pc |-> pc, text |-> text,
                                                overlapped |-> overlapped]]
    /\ UNCHANGED <<app, hybrid, score, parsed>>

\* lines 23-29 and 43-49: init() settles: the pipeline is loaded, or loading rejects
EmbedInit ==
    /\ \E c \in 1..MaxCalls :
          /\ embedding.calls[c].pc = "init"
          /\ \/ embedding' = [embedding EXCEPT !.pipe = TRUE, !.loads = @ + 1,
                                                !.calls[c].pc = "generate"]
             \/ embedding' = [embedding EXCEPT !.calls[c].pc = "thrown"]
    /\ UNCHANGED <<app, hybrid, score, parsed, cache>>

\* index.ts lines 23-26, embedding.service.ts lines 23-26: the start-up calls init(),
\* which returns at once when this.pipe is set and else starts pipeline(...)
InitBegin ==
    /\ embedding.startup = "none"
    /\ embedding' = [embedding EXCEPT !.startup = IF embedding.pipe THEN "done" ELSE "loading"]
    /\ UNCHANGED <<app, hybrid, score, parsed, cache>>

\* embedding.service.ts lines 26-28: the start-up's pipeline(...) settles: this.pipe is
\* assigned, or init() rejects
InitSettle ==
    /\ embedding.startup = "loading"
    /\ \/ embedding' = [embedding EXCEPT !.pipe = TRUE, !.loads = @ + 1, !.startup = "done"]
       \/ embedding' = [embedding EXCEPT !.startup = "failed"]
    /\ UNCHANGED <<app, hybrid, score, parsed, cache>>

\* lines 52-60: the pipe settles: the embedding is stored and returned, or the call
\* rejects
EmbedStore ==
    /\ \E c \in 1..MaxCalls :
          /\ embedding.calls[c].pc = "generate"
          /\ \/ /\ cache' = CacheAfterSet(cache, embedding.calls[c].text,
                                           Embedding(embedding.calls[c].text))
                /\ embedding' = [embedding EXCEPT !.calls[c].pc = "returned"]
             \/ /\ embedding' = [embedding EXCEPT !.calls[c].pc = "thrown"]
                /\ UNCHANGED cache
    /\ UNCHANGED <<app, hybrid, score, parsed>>

-----------------------------------------------------------------------------
(* The hybrid retriever: services/hybrid.service.ts and its second version,  *)
(* src/unnamed/part_002, which adds the feedback signal.  Weights are in     *)
(* hundredths, semanticScore / keywordScore / feedbackScore in tenths,       *)
(* finalScore in thousandths: the arithmetic below is exact.                 *)

\* matches the vector index may return for one query
MaxMatches == 3
\* largest topK a search is called with
MaxTopK == 2

\* hybrid.service.ts lines 19-23
SEMANTIC_WEIGHT == 65
KEYWORD_WEIGHT == 35
BOTH_MATCH_BOOST == 100
\* Math.min(1, ...) of line 110
ScoreCap == 1000
\* part_002 lines 21-25 and 76
WeightAlpha == 60
WeightBeta == 30
WeightGamma == 10
OverlapBoost == 50
\* keywordScore > 0.3 (hybrid.service.ts line 103, part_002 line 119)
BothThreshold == 3

Services == {"hybrid.service", "part_002"}

\* queryPinecone(query, topK * 2) in hybrid.service.ts, topK * 3 in part_002
Overfetch(service) == IF service = "hybrid.service" THEN 2 ELSE 3

\* a match of the vector index, with the keyword score calculateKeywordScore gives its
\* metadata for the query's keywords
Matches == [id : {"d1", "d2"}, score : {2, 10}, keywordScore : {0, 4, 10}]

\* what queryPinecone(query, k) may return: at most k matches, ids possibly repeated
queryPinecone(k) ==
    UNION { [1..n -> Matches] : n \in 0..(IF k < MaxMatches THEN k ELSE MaxMatches) }

\* the values getDocumentGlobalScore may resolve to (tenths)
FeedbackScores == {-8, 0, 5}

\* pending: the candidates whose lookup has not settled; failed: those whose lookup
\* rejected; looked: what the lookup of each candidate resolved to
NoSearch == [pc |-> "idle", service |-> "", topK |-> 0, semanticMatches |-> <<>>,
             candidates |-> <<>>, pending |-> {}, failed |-> {}, looked |-> <<>>,
             results |-> <<>>]

\* seenIds.has(match.id): seenIds holds the ids of the results pushed so far
SeenNever(results, id) == FALSE

Seen(results, id) == \E i \in 1..Len(results) : results[i].id = id

\* hybrid.service.ts lines 103-111
FusedScore(semanticScore, keywordScore) ==
    LET finalScore == SEMANTIC_WEIGHT * semanticScore + KEYWORD_WEIGHT * keywordScore
    IN  IF keywordScore > BothThreshold
        THEN (IF finalScore + BOTH_MATCH_BOOST > ScoreCap THEN ScoreCap
              ELSE finalScore + BOTH_MATCH_BOOST)
        ELSE finalScore

\* hybrid.service.ts lines 93-120: the result pushed for a match (the interface of this
\* version has no feedbackScore: the field is held at 0)
FusedResult(match) ==
    [id |-> match.id, semanticScore |-> match.score, keywordScore |-> match.keywordScore,
     feedbackScore |-> 0, finalScore |-> FusedScore(match.score, match.keywordScore),
     appearsInBoth |-> match.keywordScore > BothThreshold]

RECURSIVE fuseResults(_, _)
\* hybrid.service.ts lines 82-124: the results after the first n matches
fuseResults(semanticMatches, n) ==
    IF n = 0 THEN <<>>
    ELSE LET results == fuseResults(semanticMatches, n - 1)
             match == semanticMatches[n]
         IN  IF Seen(results, match.id) THEN results
             ELSE Append(results, FusedResult(match))

\* part_002 lines 110-129: the candidate pushed for a match, scores still placeholders
Candidate(match) ==
    [id |-> match.id, semanticScore |-> match.score, keywordScore |-> match.keywordScore,
     feedbackScore |-> 0, finalScore |-> 0,
     appearsInBoth |-> match.keywordScore > BothThreshold]

RECURSIVE initialFusion(_, _)
\* part_002 lines 99-133: the candidates after the first n matches
initialFusion(semanticMatches, n) ==
    IF n = 0 THEN <<>>
    ELSE LET results == initialFusion(semanticMatches, n - 1)
             match == semanticMatches[n]
         IN  IF Seen(results, match.id) THEN results
             ELSE Append(results, Candidate(match))

\* part_002 lines 76-81
WeightedScore(c) ==
    WeightAlpha * c.semanticScore + WeightBeta * c.keywordScore
        + WeightGamma * c.feedbackScore + (IF c.appearsInBoth THEN OverlapBoost ELSE 0)

\* part_002 lines 73-82: candidates.forEach(c => c.finalScore = ...)
Scored(candidates) ==
    [i \in 1..Len(candidates) |->
        [candidates[i] EXCEPT !.finalScore = WeightedScore(candidates[i])]]

\* results.slice(0, topK)
Slice(results, topK) == SubSeq(results, 1, IF topK < Len(results) THEN topK ELSE Len(results))

\* results.sort((a, b) => b.finalScore - a.finalScore); results.slice(0, topK)
TopResults(results, topK) == Slice(SortByFinalScore(results), topK)

HybridUnchanged == UNCHANGED <<app, score, parsed, cache, embedding>>

\* hybrid.service.ts lines 43-77: performHybridSearch(query, topK)
performHybridSearch ==
    /\ hybrid.pc = "idle"
    /\ \E topK \in 1..MaxTopK :
       \E semanticMatches \in queryPinecone(topK * Overfetch("hybrid.service")) :
          hybrid' = [NoSearch EXCEPT
                        !.pc = "returned", !.service = "hybrid.service", !.topK = topK,
                        !.semanticMatches = semanticMatches,
                        !.results = TopResults(fuseResults(semanticMatches,
                                                           Len(semanticMatches)), topK)]
    /\ HybridUnchanged

\* part_002 lines 42-70: the call up to await Promise.all(...), every lookup started
HybridCandidates ==
    /\ hybrid.pc = "idle"
    /\ \E topK \in 1..MaxTopK :
       \E semanticMatches \in queryPinecone(topK * Overfetch("part_002")) :
          LET candidates == initialFusion(semanticMatches, Len(semanticMatches))
          IN  hybrid' = [NoSearch EXCEPT
                            !.pc = "lookup", !.service = "part_002", !.topK = topK,
                            !.semanticMatches = semanticMatches,
                            !.candidates = candidates,
                            !.pending = 1..Len(candidates),
                            !.looked = [i \in 1..Len(candidates) |-> 0]]
    /\ HybridUnchanged

\* part_002 lines 62-69: one lookup settles, with a score or with a rejection
HybridLookup ==
    /\ hybrid.pc = "lookup"
    /\ \E i \in hybrid.pending :
         \/ \E feedbackScore \in FeedbackScores :
               hybrid' = [hybrid EXCEPT !.candidates[i].feedbackScore = feedbackScore,
                                        !.pending = @ \ {i},
                                        !.looked[i] = feedbackScore]
         \/ hybrid' = [hybrid EXCEPT !.candidates[i].feedbackScore = 0,
                                     !.pending = @ \ {i}, !.failed = @ \cup {i}]
    /\ HybridUnchanged

\* the ranking not awaiting the lookups
LookupsStarted(pending) == TRUE

\* part_002 lines 61-70: await Promise.all(...) resolves once every lookup has settled
\* (none rejects: each has its own try/catch)
LookupsSettled(pending) == pending = {}

\* part_002 lines 72-93: every lookup has settled; score, sort, slice, return
HybridRank ==
    /\ hybrid.pc = "lookup"
    /\ LookupsSettled(hybrid.pending)
    /\ hybrid' = [hybrid EXCEPT !.pc = "returned",
                                !.candidates = Scored(hybrid.candidates),
                                !.results = TopResults(Scored(hybrid.candidates),
                                                       hybrid.topK)]
    /\ HybridUnchanged

-----------------------------------------------------------------------------
(* The system *)

Init ==
    /\ queries = <<>>
    /\ hops = <<>>
    /\ hop_documents = <<>>
    /\ responses = <<>>
    /\ evidence_chains = <<>>
    /\ upserts = <<>>
    /\ nextUuid = 1
    /\ mh = NoRun
    /\ req = NoRequest
    /\ reply = NoReply
    /\ frames = <<>>
    /\ contextWindow = << >>
    /\ feedbackReply = 0
    /\ requests = 0
    /\ submitted = NoSubmit
    /\ writers = NoWriters
    /\ ledgerCall = NoLedgerCall
    /\ handlers = NoHandlers
    /\ hybrid = NoSearch
    /\ score = NoScore
    /\ parsed = NoParse
    /\ cache = NoCache
    /\ embedding = NoEmbedding

MultiHopStep ==
    \/ MHLogQuery
    \/ MHTemplateCheck
    \/ MHReplayStep
    \/ MHInitialHop
    \/ MHEvaluate
    \/ MHFanoutStep

\* direct callers of the controller over a ledger that receives responses and thumbs-up
Next ==
    \/ DirectBegin
    \/ DirectEnd
    \/ MultiHopStep
    \/ LogResponse
    \/ PositiveFeedback

Spec == Init /\ [][Next]_vars

\* the mounted chat routes
NextChat ==
    \/ ChatBegin
    \/ ChatLlmSettles
    \/ ChatAfterMultiHop
    \/ StreamBegin
    \/ StreamAfterMultiHop
    \/ StreamChunk
    \/ StreamEnd
    \/ StreamError
    \/ MHLogQuery
    \/ MHTemplateCheck
    \/ MHInitialHop
    \/ MHEvaluate
    \/ MHFanoutStep

SpecChat == Init /\ [][NextChat]_vars

\* the first run of the process
FirstRun == requests = 0 /\ DirectBegin

\* the feedback route over the ledger one run leaves
NextFeedback ==
    \/ FirstRun
    \/ DirectEnd
    \/ MHLogQuery
    \/ MHTemplateCheck
    \/ MHInitialHop
    \/ MHEvaluate
    \/ MHFanoutStep
    \/ RecordAnswer
    \/ PostFeedback

SpecFeedback == Init /\ [][NextFeedback]_vars

-----------------------------------------------------------------------------
(* Properties of performMultiHopSearch *)

NoDuplicateIds(results) ==
    \A i, j \in 1..Len(results) : i # j => results[i].id # results[j].id

\* the hop_documents rows logged for the hops of a run
DocsOfRun(hds, hopIds) == SelectIdx(hds, LAMBDA d : d.hop_id \in Range(hopIds), 1)

InLoop(run) == run.pc \in {"evaluate", "fanout"}

\* the variant of the decomposition loop: iterations left, then the phase inside the
\* iteration, then the sub-queries still to run
Rank(run) ==
    << run.maxHops - run.currentHop, IF run.pc = "evaluate" THEN 1 ELSE 0, Len(run.pending) >>

LexLess(a, b) ==
    \/ a[1] < b[1]
    \/ a[1] = b[1] /\ a[2] < b[2]
    \/ a[1] = b[1] /\ a[2] = b[2] /\ a[3] < b[3]

\* C2: for every maxHops >= 0 and every sequence of LLM replies the decomposition loop
\* ends in a return: a run issues at most maxHops sufficiency evaluations and enters at
\* most maxHops fan-out rounds, and every step taken inside the loop either returns or
\* stays in the loop with a strictly smaller, non-negative variant
C2_LoopBounded ==
    [][ /\ mh'.llmCalls <= mh'.maxHops
        /\ mh'.rounds <= mh'.maxHops
        /\ mh'.currentHop <= mh'.maxHops
        /\ (InLoop(mh) /\ mh' # mh) =>
              \/ mh'.pc = "returned"
              \/ InLoop(mh') /\ LexLess(Rank(mh'), Rank(mh)) ]_vars

\* a run with maxHops = 1 has spent its one evaluation and its one fan-out round
C2_Witness ==
    /\ mh.pc = "returned"
    /\ mh.path = "standard"
    /\ mh.maxHops = 1
    /\ mh.llmCalls = 1
    /\ mh.rounds = 1
    /\ mh.currentHop = 1

\* the ids of the hops logged for a query, in insertion order
HopIdsOf(hs, queryId) ==
    LET idx == SelectIdx(hs, LAMBDA h : h.query_id = queryId, 1)
    IN  [i \in 1..Len(idx) |-> hs[idx[i]].id]

\* the hop breakdown of one query: its hops, each once, ascending by hop_order
Breakdown(hs, queryId) ==
    LET idx  == SelectIdx(hs, LAMBDA h : h.query_id = queryId, 1)
        rows == [i \in 1..Len(idx) |-> [hop_order |-> hs[idx[i]].hop_order,
                                        sub_query |-> hs[idx[i]].sub_query,
                                        reasoning |-> hs[idx[i]].reasoning]]
    IN  StableSort(rows, HopOrderAsc, Len(rows))

SubQueries(rows) == [i \in 1..Len(rows) |-> rows[i].sub_query]

\* C3: when the ledger holds a prior query p with the text of the run and a +1 response
\* at the time of the template lookup, the run takes the replay path, logs as many hops
\* as p has, and returns as generatedQueries the sub-queries of p's hops in ascending
\* hop_order
C3_ReplayFollowsPriorRun ==
    mh.pc = "returned" =>
        \A p \in mh.matched :
            /\ mh.path = "replay"
            /\ Len(HopIdsOf(hops, mh.queryId)) = Len(HopIdsOf(hops, p))
            /\ mh.generatedQueries = SubQueries(Breakdown(hops, p))

\* C4: getSuccessfulTemplate(text) is empty exactly when no query with that text has a +1
\* response; otherwise it is the hop breakdown of one such query, each hop once, ascending
\* by hop_order, with no rows of another query or of a second response mixed in
C4_TemplateIsOneBreakdown ==
    \A queryText \in QueryTexts :
        LET template == getSuccessfulTemplate(queries, responses, hops, queryText)
            positive == PositiveQueries(queries, responses, queryText, Null)
        IN  /\ (template = <<>>) <=> (positive = {})
            /\ template # <<>> => \E p \in positive : template = Breakdown(hops, p.id)

\* results holds the entries of allResults, each once, in non-increasing finalScore
SortedByFinalScore(results, allResults) ==
    /\ Len(results) = Len(allResults)
    /\ Range(results) = Range(allResults)
    /\ \A i \in 1..(Len(results) - 1) : results[i].finalScore >= results[i + 1].finalScore

\* C11: when the sufficiency-evaluation LLM call throws or its output is not parseable
\* JSON, performMultiHopSearch does not reject: the loop has stopped and the call has
\* returned everything accumulated so far, sorted by finalScore
C11_LlmFailureDegrades ==
    mh.analysis \in {"throw", "malformed"} =>
        /\ mh.pc = "returned"
        /\ mh.hops = mh.currentHop
        /\ SortedByFinalScore(mh.results, mh.allResults)

\* the LLM call threw after an initial hop that surfaced two documents out of order
C11_Witness ==
    /\ mh.analysis = "throw"
    /\ mh.pc = "returned"
    /\ Len(mh.results) = 2
    /\ mh.results # mh.allResults

-----------------------------------------------------------------------------
(* Properties of the chat routes *)

LowOrEmpty(results) ==
    Len(results) = 0 \/ MaxFinalScore(results, Len(results)) < RagThreshold

\* C5: a knowledge-mode POST /api/chat whose multi-hop results are empty, or whose best
\* finalScore is below the threshold, answers with the fallback blocks, sources = [] and
\* mode = "rag", and never calls the answer LLM
C5_FallbackBelowThreshold ==
    (/\ req.kind = "chat"
     /\ req.mode = "knowledge"
     /\ req.phase \in {"llm", "done"}
     /\ mh.pc = "returned"
     /\ LowOrEmpty(mh.results))
    => (/\ req.phase = "done"
        /\ ~req.llmCalled
        /\ reply.status = 200
        /\ reply.blocks = createFallbackResponse.blocks
        /\ reply.sources = <<>>
        /\ reply.mode = "rag")

\* a chat request whose results were not empty, and all below the threshold, is answered
C5_Witness ==
    /\ req.kind = "chat"
    /\ req.phase = "done"
    /\ mh.pc = "returned"
    /\ Len(mh.results) > 0
    /\ LowOrEmpty(mh.results)
    /\ reply = createFallbackResponse

\* C23: when the vector index is not configured, or its queries fail, queryPinecone
\* resolves to no match and a null highest score without throwing, and the
\* knowledge-mode request ends on the fallback path: no answer-LLM call, the fallback
\* answer with sources = [] (on the stream route the fallback chunk, then done)
C23_IndexDownFallsBack ==
    (/\ req.kind \in {"chat", "stream"}
     /\ req.mode = "knowledge"
     /\ req.phase = "done"
     /\ mh.index # "ok")
    => (/\ \A results \in SearchResults :
              PineconeResult(mh.index, MatchesOf(results))
                 = [matches |-> <<>>, highestScore |-> Null, threw |-> FALSE]
        /\ ~req.llmCalled
        /\ req.sources = <<>>
        /\ req.kind = "chat" => reply = createFallbackResponse
        /\ req.kind = "stream" =>
              /\ Len(frames) = 2
              /\ frames[1].type = "chunk"
              /\ frames[1].data = FallbackText
              /\ frames[2].type = "done")

\* a knowledge answer, buffered or streamed, has completed without fallback
AnswerCompleted ==
    /\ req.mode = "knowledge"
    /\ req.phase = "done"
    /\ req.llmCalled
    /\ \/ req.kind = "chat" /\ reply.status = 200
       \/ req.kind = "stream" /\ frames[Len(frames)].type = "done"

\* C6: once a knowledge request has completed with an answer that is not the fallback,
\* the ledger holds a response row for the run's queryId and exactly one evidence chain
\* for that response, listing the run's hopIds
C6_AnswerIsRecorded ==
    AnswerCompleted =>
        \E r \in Range(responses) :
            /\ r.query_id = mh.queryId
            /\ Cardinality({ i \in 1..Len(evidence_chains) :
                                evidence_chains[i].response_id = r.id }) = 1
            /\ ChainOf(evidence_chains, r.id)[1].hop_ids = mh.hopIds

\* C10: a rejected ledger write during a knowledge request is contained: the request that
\* completes without an answer-LLM call comes from a run that returned, and it carries
\* the fallback, never an error response or an error frame
C10_LedgerFailureContained ==
    (/\ req.kind \in {"chat", "stream"}
     /\ req.mode = "knowledge"
     /\ req.phase = "done"
     /\ ~req.llmCalled)
    => (/\ mh.pc = "returned"
        /\ req.kind = "chat" => reply.status = 200
        /\ req.kind = "stream" => frames[Len(frames)].type = "done")

\* a streamed answer that called the LLM has completed
StreamCompleted ==
    /\ req.kind = "stream"
    /\ req.phase = "done"
    /\ req.llmCalled
    /\ frames[Len(frames)].type = "done"

\* the data of the chunk frames among the frames, in order
ChunkData(fs) ==
    LET idx == SelectIdx(fs, LAMBDA f : f.type = "chunk", 1)
    IN  [i \in 1..Len(idx) |-> fs[idx[i]].data]

\* the last entry of a conversation
LastTurn(cw, convId) == cw[convId][Len(cw[convId])]

\* C12: a non-fallback streamed answer that completes has written exactly one meta frame
\* first, then one chunk frame per chunk of the LLM stream, in the stream's order and with
\* the chunk as data, then one done frame; and the assistant turn it persisted is the
\* concatenation of the chunk data it emitted
C12_StreamFrames ==
    StreamCompleted =>
        /\ Len(frames) = Len(req.stream) + 2
        /\ frames[1].type = "meta"
        /\ \A i \in 1..Len(req.stream) :
               frames[i + 1].type = "chunk" /\ frames[i + 1].data = req.stream[i]
        /\ frames[Len(frames)].type = "done"
        /\ req.convId \in DOMAIN contextWindow
        /\ LastTurn(contextWindow, req.convId).role = "assistant"
        /\ LastTurn(contextWindow, req.convId).content = ChunkData(frames)

\* a RAG answer streamed in two different chunks has completed
C12_Witness ==
    /\ StreamCompleted
    /\ req.mode = "knowledge"
    /\ req.stream = <<"to", "ken">>

\* the positions of the terminal frames
TerminalFrames(fs) == { i \in 1..Len(fs) : fs[i].type \in {"done", "error"} }

\* C13: every /api/chat/stream response, general, RAG, fallback or failed, ends with
\* exactly one terminal frame, done or error: a terminal frame is the last frame written
\* and closes the stream, a closed stream has one, and when the LLM call or stream
\* failed it is the error frame
C13_OneTerminalFrame ==
    req.kind = "stream" =>
        /\ TerminalFrames(frames) \subseteq {Len(frames)}
        /\ TerminalFrames(frames) # {} => req.phase = "done"
        /\ req.phase = "done" => TerminalFrames(frames) = {Len(frames)}
        /\ (req.phase = "done" /\ req.llmCalled /\ req.outcome = "throw")
               => frames[Len(frames)].type = "error"
        /\ (req.phase = "done" /\ req.llmCalled /\ req.outcome = "end")
               => frames[Len(frames)].type = "done"

\* a RAG stream threw after its first chunk and was closed with an error frame
C13_Witness ==
    /\ req.kind = "stream"
    /\ req.mode = "knowledge"
    /\ req.phase = "done"
    /\ req.outcome = "throw"
    /\ Len(req.fullContent) = 1
    /\ Len(frames) = 3
    /\ frames[3].type = "error"

\* the conversation holds what it held when the request read it
MemoryUnchanged ==
    getContextWindow(contextWindow, req.convId) = req.conversationHistory

\* the conversation has gained the user turn and the partial content as assistant turn
MemoryHoldsPartial ==
    contextWindow = AppendTurns([c \in DOMAIN contextWindow |->
                                    IF c = req.convId THEN req.conversationHistory
                                    ELSE contextWindow[c]],
                                req.convId, req.message, req.fullContent)

\* C14: when the LLM call times out during a streamed answer the answer is finalised
\* with what was emitted: the stream ends with the done frame, and ConversationMemory is
\* updated with the partial content if that content is not empty and left unchanged if
\* it is empty
C14_TimeoutFinalises ==
    (req.kind = "stream" /\ req.phase = "done" /\ req.llmCalled /\ req.outcome = "timeout")
    => /\ frames[Len(frames)].type = "done"
       /\ req.fullContent # <<>> => MemoryHoldsPartial
       /\ req.fullContent = <<>> => MemoryUnchanged

-----------------------------------------------------------------------------
(* Properties of the feedback path *)

\* the hops of a chain that have at least one logged document
HopsWithDocs(hds, hopIds) ==
    { h \in Range(hopIds) : Len(DocsOfHop(hds, h)) > 0 }

\* mean(dense + sparse) of hop g is at most that of hop h
MeanLeq(hds, g, h) ==
    LET dg == DocsOfHop(hds, g)
        dh == DocsOfHop(hds, h)
    IN  ScoreSum(dg, Len(dg)) * Len(dh) <= ScoreSum(dh, Len(dh)) * Len(dg)

Failed(hs, hopId) == \E h \in Range(hs) : h.id = hopId /\ h.status = "failed"

\* C7: after a thumbs-down on a response whose evidence chain has a hop with documents,
\* a hop of the chain is failed, and every failed hop of the chain has the minimum mean
\* of dense_score + sparse_score among the chain's hops with documents
C7_WeakestHopFailed ==
    \A r \in Range(responses) :
        LET chain == ChainOf(evidence_chains, r.id)
        IN  (r.user_feedback = -1 /\ chain # <<>>
               /\ HopsWithDocs(hop_documents, chain[1].hop_ids) # {})
            => LET scored == HopsWithDocs(hop_documents, chain[1].hop_ids)
               IN  /\ \E h \in scored : Failed(hops, h)
                   /\ \A h \in scored : Failed(hops, h) =>
                          \A g \in scored : MeanLeq(hop_documents, h, g)

\* the documents a hop of the ledger has surfaced
LedgerDocuments == { hd.document_id : hd \in Range(hop_documents) }

\* response r is linked to document d through its query, a hop of that query and a
\* hop_documents row of that hop
LinkedTo(r, d) ==
    \E q \in Range(queries), h \in Range(hops), hd \in Range(hop_documents) :
        /\ r.query_id = q.id
        /\ h.query_id = q.id
        /\ hd.hop_id = h.id
        /\ hd.document_id = d

RECURSIVE DistinctSum(_, _, _)
\* the sum of user_feedback over the first n responses that are linked to d, each once
DistinctSum(rs, d, n) ==
    IF n = 0 THEN 0
    ELSE DistinctSum(rs, d, n - 1) + (IF LinkedTo(rs[n], d) THEN rs[n].user_feedback ELSE 0)

\* C17: the raw score getDocumentGlobalScore(d) works with is the sum of user_feedback
\* over the distinct responses linked to d: each such response counts +1 or -1 once,
\* also when its query surfaced d in several hops or hop_documents rows, and the score
\* is 0 when no response with feedback is linked to d
C17_RawCountsEachResponseOnce ==
    \A d \in LedgerDocuments :
        RawScore(responses, queries, hops, hop_documents, d)
            = DistinctSum(responses, d, Len(responses))

\* a step of the feedback route that changed a row
FeedbackStep ==
    /\ Len(responses') = Len(responses)
    /\ Len(hops') = Len(hops)
    /\ responses' # responses \/ hops' # hops

ChangedHops == { i \in 1..Len(hops) : hops'[i] # hops[i] }

ChangedResponses == { i \in 1..Len(responses) : responses'[i] # responses[i] }

C9_FeedbackNeverReset ==
    [][ \A i \in 1..Len(responses) :
           responses[i].user_feedback \in {-1, 1} => responses'[i].user_feedback # 0 ]_vars


-----------------------------------------------------------------------------
(* Properties of the hybrid retriever *)

NextHybrid ==
    \/ performHybridSearch
    \/ HybridCandidates
    \/ HybridLookup
    \/ HybridRank

SpecHybrid == Init /\ [][NextHybrid]_vars

NonIncreasing(results) ==
    \A i \in 1..(Len(results) - 1) : results[i].finalScore >= results[i + 1].finalScore

\* C15: what performHybridSearch(query, topK) returns has at most topK results, in
\* non-increasing finalScore order, with no id twice, whatever matches the vector index
\* gave, repeated ids included; every result stems from a match
C15_TopKSortedUnique ==
    hybrid.pc = "returned" =>
        /\ Len(hybrid.results) <= hybrid.topK
        /\ NonIncreasing(hybrid.results)
        /\ NoDuplicateIds(hybrid.results)
        /\ \A i \in 1..Len(hybrid.results) :
              \E m \in Range(hybrid.semanticMatches) :
                 /\ m.id = hybrid.results[i].id
                 /\ m.score = hybrid.results[i].semanticScore

C15_Witness ==
    /\ hybrid.pc = "returned"
    /\ hybrid.service = "part_002"
    /\ hybrid.topK = 2
    /\ Len(hybrid.semanticMatches) = 3
    /\ hybrid.semanticMatches[1].id = hybrid.semanticMatches[3].id
    /\ hybrid.semanticMatches[1].id # hybrid.semanticMatches[2].id
    /\ Len(hybrid.results) = 2
    /\ hybrid.results[1].id = hybrid.semanticMatches[2].id

\* C16: every result performHybridSearch returns has appearsInBoth exactly when its
\* keywordScore exceeds 0.3 and finalScore = 0.6 * semanticScore + 0.3 * keywordScore
\* + 0.1 * feedbackScore + (0.05 if appearsInBoth), with no cap or other adjustment
C16_DefaultWeights ==
    hybrid.pc = "returned" =>
        \A i \in 1..Len(hybrid.results) :
           LET r == hybrid.results[i]
           IN  /\ r.appearsInBoth <=> r.keywordScore > 3
               /\ r.finalScore = 60 * r.semanticScore + 30 * r.keywordScore
                                   + 10 * r.feedbackScore
                                   + (IF r.appearsInBoth THEN 50 ELSE 0)

-----------------------------------------------------------------------------
(* Properties of the document score *)

NextScore ==
    \/ ScoreFirst
    \/ ScoreLater
    \/ ScoreAfterFeedback

SpecScore == Init /\ [][NextScore]_vars

\* two successive evaluations with the same lastTime
ScoreStep == score.pc = "scored" /\ score'.pc = "scored" /\ score'.lastTime = score.lastTime

\* C18 as stated: for a fixed lastTime the score does not decrease when raw grows, and
\* with raw unchanged it does not increase as time passes, negative raw included
C18_MonotoneAsStated ==
    [][ScoreStep =>
          /\ (score'.now = score.now /\ score'.rawScore >= score.rawScore)
                => score'.value >= score.value
          /\ (score'.rawScore = score.rawScore /\ score'.now >= score.now)
                => score'.value <= score.value]_vars

\* C18, amended: for a fixed lastTime the score does not decrease when raw grows, and
\* with raw unchanged its magnitude does not grow as time passes: the score does not
\* increase for raw >= 0 and does not decrease (it rises toward 0) for raw < 0
C18_MonotoneInMagnitude ==
    [][ScoreStep =>
          /\ (score'.now = score.now /\ score'.rawScore >= score.rawScore)
                => score'.value >= score.value
          /\ (score'.rawScore = score.rawScore /\ score'.now >= score.now)
                => IF score.rawScore >= 0
                   THEN score'.value <= score.value /\ score'.value >= 0
                   ELSE score'.value >= score.value /\ score'.value <= 0]_vars

C18_Witness ==
    /\ score.pc = "scored"
    /\ score.step = "later"
    /\ score.rawScore = -2
    /\ score.now = score.lastTime + 2
    /\ score.value > score.prev
    /\ score.value < 0

-----------------------------------------------------------------------------
(* Properties of the formatter *)

NextParse == parseLlmJsonResponse

SpecParse == Init /\ [][NextParse]_vars

\* C19: parseLlmJsonResponse does not throw and returns at least one block for every
\* output: JSON with an empty blocks array, JSON that is no object and blocks arrays
\* with null or non-object elements included
C19_NeverThrowsNorEmpty ==
    parsed.pc = "returned" => ~parsed.threw /\ Len(parsed.blocks) >= 1

-----------------------------------------------------------------------------
(* Properties of the LRU cache and the embedding service *)

NextCache ==
    \/ CacheNew
    \/ CacheGet
    \/ CacheSet
    \/ EmbedBegin
    \/ EmbedInit
    \/ EmbedStore

SpecCache == Init /\ [][NextCache]_vars

\* C20: after any sequence of get and set on an LRUCache constructed with maxSize >= 1,
\* interleaved in any way with concurrent generateEmbedding calls on it, the cache holds
\* at most maxSize entries, no key twice
C20_CacheBounded ==
    cache.pc = "live" =>
        /\ Len(cache.entries) <= cache.maxSize
        /\ \A i, j \in 1..Len(cache.entries) :
              i # j => cache.entries[i].key # cache.entries[j].key

\* two overlapping generateEmbedding calls for different texts have both stored their
\* embedding in a cache of maxSize 1, the second store evicting the first
C20_Witness ==
    /\ cache.pc = "live"
    /\ cache.maxSize = 1
    /\ embedding.calls[1].pc = "returned"
    /\ embedding.calls[2].pc = "returned"
    /\ embedding.calls[2].overlapped
    /\ embedding.calls[1].text = "ta"
    /\ embedding.calls[2].text = "tb"
    /\ cache.last.op = "set"
    /\ cache.last.evicted = "ta"
    /\ cache.last.key = "tb"
    /\ cache.last.value = Embedding("tb")
    /\ Len(cache.entries) = 1

\* the keys the cache holds
Keys(entries) == { entries[i].key : i \in 1..Len(entries) }

\* position of a key in the record of uses
UsePos(uses, key) == CHOOSE i \in 1..Len(uses) : uses[i] = key

\* the keys held whose last use is not later than that of any other key held
LeastRecentlyUsed(c) ==
    { k \in Keys(c.entries) :
        \A o \in Keys(c.entries) : UsePos(c.uses, k) <= UsePos(c.uses, o) }

\* every key held before, other than those in except, is held after with its value
ValuesKept(before, after, except) ==
    \A k \in Keys(before) \ except :
        k \in Keys(after) /\ ValueOf(after, k) = ValueOf(before, k)

\* C21: a set of a new key into a full cache evicts exactly one key, the least recently
\* used one (a get hit and a set are uses); a get and a set of a key already held evict
\* nothing; in each case every other key keeps its value
C21_EvictsLeastRecentlyUsed ==
    [][(cache.pc = "live" /\ cache'.pc = "live") =>
          LET key == cache'.last.key
              before == cache.entries
              after == cache'.entries
          IN  IF cache'.last.op = "set" /\ key \notin Keys(before)
                                         /\ Len(before) = cache.maxSize
              THEN /\ Cardinality(Keys(before) \ Keys(after)) = 1
                   /\ Keys(before) \ Keys(after) = LeastRecentlyUsed(cache)
                   /\ Keys(after) \ Keys(before) = {key}
                   /\ ValuesKept(before, after, LeastRecentlyUsed(cache))
              ELSE /\ Keys(before) \subseteq Keys(after)
                   /\ ValuesKept(before, after,
                                 IF cache'.last.op = "set" THEN {key} ELSE {})]_vars

\* ta was set, then tb, then ta was used again; the set of tc has evicted tb
C21_Witness ==
    /\ cache.pc = "live"
    /\ cache.maxSize = 2
    /\ cache.last.op = "set"
    /\ cache.last.key = "tc"
    /\ cache.uses = <<"tb", "ta", "tc">>
    /\ Keys(cache.entries) = {"ta", "tc"}

\* C22: the feedback lookups of performHybridSearch are isolated.  While a lookup is
\* pending no finalScore has been computed and the call has not returned; once it has
\* returned every lookup has settled, exactly the candidates whose lookup failed have
\* feedbackScore 0 in place of a looked-up score, every other candidate has the score
\* its lookup gave, and each finalScore is computed from that feedbackScore
C22_LookupsIsolated ==
    hybrid.service = "part_002" =>
        /\ hybrid.pending # {} =>
              /\ hybrid.pc = "lookup"
              /\ \A i \in 1..Len(hybrid.candidates) : hybrid.candidates[i].finalScore = 0
        /\ hybrid.pc = "returned" =>
              /\ hybrid.pending = {}
              /\ \A i \in 1..Len(hybrid.candidates) :
                    LET c == hybrid.candidates[i]
                    IN  /\ i \in hybrid.failed => c.feedbackScore = 0
                        /\ i \notin hybrid.failed => c.feedbackScore = hybrid.looked[i]
                        /\ c.finalScore = WeightedScore(c)
              /\ Range(hybrid.results) \subseteq Range(hybrid.candidates)

\* the lookup of the first candidate failed, that of the second resolved, and the
\* search has returned both
C22_Witness ==
    /\ hybrid.pc = "returned"
    /\ hybrid.service = "part_002"
    /\ Len(hybrid.candidates) = 2
    /\ hybrid.failed = {1}
    /\ hybrid.looked[2] = 5
    /\ hybrid.candidates[2].feedbackScore = 5
    /\ hybrid.candidates[1].feedbackScore = 0
    /\ Len(hybrid.results) = 2

-----------------------------------------------------------------------------
(* POST /api/feedback with every body, over the ledger one run leaves *)

\* the first run of the process, called with maxHops = 0
OneHopRun == requests = 0 /\ DirectCall({0})

NextSubmit ==
    \/ OneHopRun
    \/ DirectEnd
    \/ MHLogQuery
    \/ MHTemplateCheck
    \/ MHInitialHop
    \/ RecordAnswer
    \/ SubmitFeedback

SpecSubmit == Init /\ [][NextSubmit]_vars

\* a traced POST /api/feedback request is answered
SubmitStep == submitted'.count = submitted.count + 1

\* the row of response r carries user_feedback f
Recorded(rs, r, f) == \A i \in 1..Len(rs) : rs[i].id = r => rs[i].user_feedback = f

\* the upsert attempts of the step: one, of a vector named correction-<uuid> with
\* metadata type "correction"
OneCorrectionUpsert ==
    /\ Len(upserts') = Len(upserts) + 1
    /\ SubSeq(upserts', 1, Len(upserts)) = upserts
    /\ upserts'[Len(upserts')].vector.id[1] = "correction-"
    /\ upserts'[Len(upserts')].vector.type = "correction"

C25_MalformedFeedbackRejected ==
    [][ (/\ SubmitStep
         /\ \/ submitted'.body.response_id = Null
            \/ ~submitted'.body.given
            \/ submitted'.body.feedback \notin {-1, 1})
        => (feedbackReply' = 400 /\ UNCHANGED <<ledger, upserts>>) ]_vars

-----------------------------------------------------------------------------
(* the mounted chat routes, with requests whose body carries no message *)

NextChatAnyBody ==
    \/ ChatMissingMessage
    \/ StreamMissingMessage
    \/ NextChat

SpecChatAnyBody == Init /\ [][NextChatAnyBody]_vars

\* C26: POST /api/chat and POST /api/chat/stream with no message are answered 400
\* without mode detection, retrieval, an LLM call or a ledger write
C26_MissingMessageRejected ==
    [][ (requests' = requests + 1 /\ req'.kind \in {"chat", "stream"}
           /\ req'.message = Undefined)
        => (/\ reply'.status = 400
            /\ req'.mode = "" /\ ~req'.llmCalled /\ mh' = NoRun
            /\ UNCHANGED <<ledger, contextWindow>>) ]_vars

\* the traced request was answered after all of submitFeedback
Submitted(trace) == trace.count > 0 /\ trace.inject \notin {"not called", "not reached"}

\* C27: submitFeedback(r, +1) followed by submitFeedback(r, -1) leaves userFeedback of
\* r at -1 and runs the weakest-link analysis once over the two calls: the +1 call
\* runs none and changes no hop, the -1 call runs one
C27_ThumbsUpThenDown ==
    [][ (SubmitStep /\ Submitted(submitted')) =>
          LET body == submitted'.body
          IN  /\ body.feedback = 1 =>
                    /\ submitted'.analyses = submitted.analyses
                    /\ hops' = hops
                    /\ Recorded(responses', body.response_id, 1)
              /\ (/\ body.feedback = -1
                  /\ Submitted(submitted) /\ submitted.count = 1
                  /\ submitted.body.feedback = 1
                  /\ submitted.body.response_id = body.response_id) =>
                    /\ Recorded(responses', body.response_id, -1)
                    /\ submitted.analyses = 0 /\ submitted'.analyses = 1
                    /\ Cardinality({ i \in 1..Len(hops) : hops'[i] # hops[i] }) <= 1 ]_vars

\* a response with an evidence chain got +1 and then -1: it carries -1, one analysis
\* ran and marked a hop failed
C27_Witness ==
    /\ submitted.count = 2 /\ Submitted(submitted)
    /\ submitted.body.feedback = -1 /\ submitted.before = 1
    /\ submitted.analyses = 1
    /\ \E i \in 1..Len(responses) :
          responses[i].id = submitted.body.response_id /\ responses[i].user_feedback = -1
    /\ \E i \in 1..Len(hops) : hops[i].status = "failed"

-----------------------------------------------------------------------------
(* the weakest link among tied hops (SpecFeedback) *)

\* hop ids are uuidv4 values: the ranks their texts may take in lexicographic order
UuidOrders(ids) ==
    { rank \in [ids -> 1..Cardinality(ids)] : \A a, b \in ids : rank[a] = rank[b] => a = b }

\* hop_order of the hop named hopId
HopOrderOf(hs, hopId) == hs[CHOOSE i \in 1..Len(hs) : hs[i].id = hopId].hop_order

\* the hops with documents of a chain whose mean score equals that of hop h
TiedWith(hds, hopIds, h) ==
    { g \in HopsWithDocs(hds, hopIds) : MeanLeq(hds, g, h) /\ MeanLeq(hds, h, g) }

\* the chains of the responses that carry -1 and hold hop h
ChainsFailing(h) ==
    { ChainOf(evidence_chains, r.id)[1].hop_ids :
        r \in { x \in Range(responses') :
                  /\ x.user_feedback = -1
                  /\ ChainOf(evidence_chains, x.id) # <<>>
                  /\ h \in Range(ChainOf(evidence_chains, x.id)[1].hop_ids) } }

\* C28: among the hops of the chain that share the mean score of the hop the analysis
\* marks failed, the marked hop has the earliest hop_order and, among those of equal
\* hop_order, the lexicographically smallest id, whatever uuids the hops were given
C28_TieBreakByOrderThenId ==
    [][ FeedbackStep =>
          \A i \in ChangedHops : \A hopIds \in ChainsFailing(hops[i].id) :
             LET h == hops[i].id
                 tied == TiedWith(hop_documents, hopIds, h)
             IN  \A rank \in UuidOrders(tied) : \A g \in tied :
                    \/ HopOrderOf(hops, h) < HopOrderOf(hops, g)
                    \/ HopOrderOf(hops, h) = HopOrderOf(hops, g) /\ rank[h] <= rank[g] ]_vars

\* the first tie-break alone: the marked hop has the earliest hop_order among the tied
C28_TieBreakByOrder ==
    [][ FeedbackStep =>
          \A i \in ChangedHops : \A hopIds \in ChainsFailing(hops[i].id) :
             \A g \in TiedWith(hop_documents, hopIds, hops[i].id) :
                HopOrderOf(hops, hops[i].id) <= HopOrderOf(hops, g) ]_vars

-----------------------------------------------------------------------------
(* the ledger under concurrent runs and repeated writes *)

\* one write step of call w
WriterStep(w) ==
    \/ WriterBegin(w)
    \/ WriterLogQuery(w)
    \/ WriterLogHop(w)
    \/ WriterSearch(w)
    \/ WriterLogHopDocument(w)
    \/ WriterHopEnds(w)

\* concurrent calls of performMultiHopSearch
NextLedger == \E w \in 1..MaxWriters : WriterStep(w)

SpecLedger == Init /\ [][NextLedger]_vars

\* one call, its caller's logResponse, and callers that repeat a ledger write
NextRepeat ==
    \/ WriterStep(1)
    \/ WriterLogResponse(1)
    \/ RepeatLogQuery
    \/ RepeatLogHop
    \/ RepeatLogResponse

SpecRepeat == Init /\ [][NextRepeat]_vars

\* C29: logQuery, logHop or logResponse called a second time with an identifier the
\* ledger already holds succeeds and leaves the ledger unchanged
C29_RepeatedInsertIdempotent ==
    [][ ledgerCall' # ledgerCall => (~ledgerCall'.rejected /\ UNCHANGED ledger) ]_vars

\* the part of C29 that holds: a repeated insert adds no row
C29_RepeatedInsertAddsNothing ==
    [][ ledgerCall' # ledgerCall => UNCHANGED ledger ]_vars

\* C30: under every interleaving of concurrent performMultiHopSearch calls, every
\* hop_documents row names an existing hop and every hop an existing query
C30_ReferencesExist ==
    /\ \A hd \in Range(hop_documents) : hd.hop_id \in Ids(hops)
    /\ \A h \in Range(hops) : h.query_id \in Ids(queries)

\* two calls in flight have interleaved their writes: a document row of one hop lies
\* between two document rows of a hop of another query
C30_Witness ==
    \E i, j, k \in 1..Len(hop_documents) :
        /\ i < j /\ j < k
        /\ hop_documents[i].hop_id = hop_documents[k].hop_id
        /\ hop_documents[j].hop_id # hop_documents[i].hop_id
        /\ \E g, h \in Range(hops) :
              /\ g.id = hop_documents[i].hop_id /\ h.id = hop_documents[j].hop_id
              /\ g.query_id # h.query_id

-----------------------------------------------------------------------------
(* what performMultiHopSearch returns and logs (Spec) *)

\* C32: the results a call returns, on the replay path and on the standard path, are
\* the accumulated results in descending finalScore order, also when later hops added
\* results that score higher than earlier ones
C32_ResultsSortedDescending ==
    mh.pc = "returned" =>
        /\ Len(mh.results) = Len(mh.allResults)
        /\ Range(mh.results) = Range(mh.allResults)
        /\ \A i \in 1..(Len(mh.results) - 1) :
              mh.results[i].finalScore >= mh.results[i + 1].finalScore

\* a call returned after a later hop had added a result that scores higher than one of
\* an earlier hop: the order returned differs from the order of accumulation
C32_Witness ==
    /\ mh.pc = "returned"
    /\ Len(mh.hopIds) >= 2
    /\ mh.results # mh.allResults
    /\ \E i \in 1..(Len(mh.allResults) - 1) :
          mh.allResults[i].finalScore < mh.allResults[i + 1].finalScore

\* a hop is logged
HopStep == Len(hops') = Len(hops) + 1

\* the hop_documents rows a step appends
NewHopDocuments ==
    SubSeq(hop_documents', Len(hop_documents) + 1, Len(hop_documents'))

\* C33: the rows logged for a hop whose awaits all resolved are the results its hybrid
\* search returned, one row per result in the returned, descending finalScore order
\* with rank_position 1..n, whether or not an earlier hop had surfaced the document;
\* they all carry the id of the hop just logged and follow the rows of every earlier
\* hop (a hop cut short by a rejected write has logged a prefix of them)
C33_HopDocumentsAreTheResults ==
    [][ HopStep =>
          LET hop     == hops'[Len(hops')]
              results == mh'.searched
              rows    == NewHopDocuments
          IN  /\ SubSeq(hops', 1, Len(hops)) = hops
              /\ SubSeq(hop_documents', 1, Len(hop_documents)) = hop_documents
              /\ \A hd \in Range(hop_documents) : hd.hop_id # hop.id
              /\ \A i \in 1..(Len(results) - 1) :
                    results[i].finalScore >= results[i + 1].finalScore
              /\ Len(rows) <= Len(results)
              /\ ~mh'.hopFailed => Len(rows) = Len(results)
              /\ \A i \in 1..Len(rows) :
                    /\ rows[i].hop_id = hop.id
                    /\ rows[i].document_id = results[i].id
                    /\ rows[i].dense_score = results[i].semanticScore
                    /\ rows[i].sparse_score = results[i].keywordScore
                    /\ rows[i].rank_position = i ]_vars

\* a second hop has logged, at ranks 1 and 2, both results of its search, the first of
\* which an earlier hop had already logged
C33_Witness ==
    /\ Len(hops) >= 2
    /\ ~mh.hopFailed
    /\ Len(mh.searched) = 2
    /\ \E i, j \in 1..Len(hop_documents) :
          /\ i < j
          /\ hop_documents[i].hop_id # hop_documents[j].hop_id
          /\ hop_documents[i].document_id = hop_documents[j].document_id
          /\ hop_documents[j].hop_id = hops[Len(hops)].id
          /\ hop_documents[j].rank_position = 1
          /\ j < Len(hop_documents)
          /\ hop_documents[j + 1].hop_id = hops[Len(hops)].id
          /\ hop_documents[j + 1].rank_position = 2

\* the Hop rows logged under the run's queryId, in insertion order
HopsOfRun ==
    LET idx == SelectIdx(hops, LAMBDA h : h.query_id = mh.queryId, 1)
    IN  [i \in 1..Len(idx) |-> hops[idx[i]]]

\* a standard run with maxHops = 1 whose one evaluation asked for sub-queries has returned,
\* every hop of it having been logged and searched
OneRoundReturned ==
    /\ mh.pc = "returned"
    /\ mh.path = "standard"
    /\ mh.maxHops = 1
    /\ mh.analysis = "queries"
    /\ ~mh.hopFailed

\* C34: a standard run with maxHops = 1 whose evaluation is insufficient with k >= 1
\* sub-queries logs exactly 1 + k hops: the initial hop (order 0, the original query,
\* "Initial Query"), then one hop of order 1 and reasoning "LLM Generated" per sub-query,
\* in the order of the sub-queries, and generatedQueries is that list of sub-queries
C34_OneRoundLogsOnePlusKHops ==
    OneRoundReturned =>
        LET k == Len(mh.generatedQueries) IN
        /\ k >= 1
        /\ mh.hops = 1
        /\ Len(HopsOfRun) = 1 + k
        /\ Len(mh.hopIds) = 1 + k
        /\ \A i \in 1..(1 + k) : HopsOfRun[i].id = mh.hopIds[i]
        /\ HopsOfRun[1].hop_order = 0
        /\ HopsOfRun[1].sub_query = mh.originalQuery
        /\ HopsOfRun[1].reasoning = "Initial Query"
        /\ \A i \in 1..k :
              /\ HopsOfRun[1 + i].hop_order = 1
              /\ HopsOfRun[1 + i].reasoning = "LLM Generated"
              /\ HopsOfRun[1 + i].sub_query = mh.generatedQueries[i]
        /\ \E analysis \in LlmAnalyses :
              analysis.kind = "json" /\ analysis.queries = mh.generatedQueries

\* the round had two different sub-queries: three hops with orders 0, 1, 1
C34_Witness ==
    /\ OneRoundReturned
    /\ Len(mh.generatedQueries) = 2
    /\ mh.generatedQueries[1] # mh.generatedQueries[2]
    /\ Len(HopsOfRun) = 3

\* C35: in every value performMultiHopSearch returns, each id of hopIds is the id of a Hop
\* row logged under the returned queryId, and each entry of generatedQueries is the
\* sub-query of one of those hops, also when a write or a search fails inside a fan-out
C35_ReturnedIdsAreLogged ==
    mh.pc = "returned" =>
        /\ \A i \in 1..Len(mh.hopIds) :
              \E h \in Range(hops) : h.id = mh.hopIds[i] /\ h.query_id = mh.queryId
        /\ \A i \in 1..Len(mh.generatedQueries) :
              \E h \in Range(hops) :
                 /\ h.query_id = mh.queryId
                 /\ h.id \in Range(mh.hopIds)
                 /\ h.sub_query = mh.generatedQueries[i]

\* the part that holds: the Hop rows logged under the returned queryId are, in order, the
\* hops of a prefix of hopIds with at most one id more returned than logged
C35_LoggedHopsAreReturned ==
    mh.pc = "returned" =>
        /\ Len(HopsOfRun) <= Len(mh.hopIds)
        /\ Len(mh.hopIds) <= Len(HopsOfRun) + 1
        /\ \A i \in 1..Len(HopsOfRun) : HopsOfRun[i].id = mh.hopIds[i]

-----------------------------------------------------------------------------
(* ConversationMemory under the chat routes (SpecChat) *)

\* the step in which the route sees its LLM answer complete: callLlm resolved and the
\* answer response is sent, or the LLM stream ended and the done frame is written
AnswerCompletes ==
    /\ req.llmCalled
    /\ req.phase \in {"llm", "streaming"}
    /\ req'.phase = "done"
    /\ \/ req.kind = "chat" /\ reply'.status = 200
       \/ req.kind = "stream" /\ frames'[Len(frames')].type = "done"

\* the last n entries of a conversation
LastEntries(entries, n) ==
    IF Len(entries) > n THEN SubSeq(entries, Len(entries) - n + 1, Len(entries)) ELSE entries

\* the conversation of the request gains the user entry, then the assistant entry, within
\* the window; no other conversation changes
TwoEntriesAppended ==
    LET before == getContextWindow(contextWindow, req.convId)
        after  == getContextWindow(contextWindow', req.convId)
    IN  /\ \E content \in LlmAnswers \cup {req.fullContent} :
              /\ req.kind = "stream" => content = req.fullContent
              /\ req.kind = "chat" => content \in LlmAnswers
              /\ after = LastEntries(before \o << [role |-> "user", content |-> req.message],
                                                  [role |-> "assistant", content |-> content] >>,
                                     WindowSize)
        /\ DOMAIN contextWindow' = DOMAIN contextWindow \cup {req.convId}
        /\ \A c \in DOMAIN contextWindow : c # req.convId => contextWindow'[c] = contextWindow[c]

\* C36: ConversationMemory is changed only by a request whose LLM answer completed, which
\* appends exactly two entries, the user entry then the assistant entry; a request that
\* ends in the fallback or in an error response, and a stream that fails after some
\* chunks, leave it unchanged
C36_MemoryChangedOnlyByCompletedAnswer ==
    [][ /\ AnswerCompletes => TwoEntriesAppended
        /\ ~AnswerCompletes => contextWindow' = contextWindow ]_vars

\* a stream failed after a chunk on a conversation that holds the two entries of an
\* earlier completed answer, and nothing else
C36_Witness ==
    /\ req.kind = "stream"
    /\ req.phase = "done"
    /\ req.outcome = "throw"
    /\ Len(req.fullContent) >= 1
    /\ frames[Len(frames)].type = "error"
    /\ Len(req.conversationHistory) = 2
    /\ req.conversationHistory[1].role = "user"
    /\ req.conversationHistory[2].role = "assistant"
    /\ getContextWindow(contextWindow, req.convId) = req.conversationHistory

-----------------------------------------------------------------------------
(* what submitFeedback writes into responses (SpecSubmit) *)

\* C37: every submitFeedback call overwrites both userFeedback and userCorrection of
\* the response it names: a call with no or an empty correction sets userCorrection to
\* null even when an earlier call stored one, and no other responses row is changed
C37_FeedbackOverwritesBoth ==
    [][ (SubmitStep /\ Submitted(submitted')) =>
          LET body == submitted'.body
          IN  /\ Len(responses') = Len(responses)
              /\ \A i \in 1..Len(responses) :
                    IF responses[i].id = body.response_id
                    THEN /\ responses'[i].user_feedback = body.feedback
                         /\ responses'[i].user_correction =
                               (IF body.correction = "" THEN <<>> ELSE <<body.correction>>)
                         /\ responses'[i].id = responses[i].id
                         /\ responses'[i].query_id = responses[i].query_id
                    ELSE responses'[i] = responses[i] ]_vars

\* a second call without correction has set to null the correction the first call had
\* stored, next to a response that nobody gave feedback on
C37_Witness ==
    /\ submitted.count = 2 /\ Submitted(submitted)
    /\ submitted.body.correction = ""
    /\ submitted.beforeCorrection # <<>>
    /\ Len(responses) = 2
    /\ \E i, j \in 1..Len(responses) :
          /\ responses[i].id = submitted.body.response_id
          /\ responses[i].user_correction = <<>>
          /\ responses[i].user_feedback = submitted.body.feedback
          /\ responses[j].id # submitted.body.response_id
          /\ responses[j].user_feedback = 0
          /\ responses[j].user_correction = <<>>

-----------------------------------------------------------------------------
(* Initialisation of the embedding pipeline (SpecInit) *)

\* the start-up's init() and generateEmbedding calls on one service, in any interleaving
NextInit ==
    \/ CacheNew
    \/ InitBegin
    \/ InitSettle
    \/ EmbedBegin
    \/ EmbedInit
    \/ EmbedStore

SpecInit == Init /\ [][NextInit]_vars

\* C38: for any interleaving of concurrent init and generateEmbedding calls the pipeline
\* is loaded at most once per process
C38_PipelineLoadedOnce == embedding.loads <= 1

\* the part that holds: once a load has completed, no call starts another one
C38_NoLoadStartedAfterCompletion ==
    [][ embedding.pipe =>
          /\ embedding'.startup = "loading" => embedding.startup = "loading"
          /\ \A c \in 1..MaxCalls :
                embedding'.calls[c].pc = "init" => embedding.calls[c].pc = "init" ]_vars

-----------------------------------------------------------------------------
(* ConversationMemory under concurrent requests (SpecTurns) *)

HandlerStep(c) == HandlerBegin(c) \/ HandlerCompletes(c) \/ HandlerGivesUp(c)

NextTurns == \E c \in 1..MaxHandlers : HandlerStep(c)

SpecTurns == Init /\ [][NextTurns]_vars

\* every conversation is a sequence of pairs: a user entry, then an assistant entry
PairsIntact ==
    \A k \in DOMAIN contextWindow :
       LET entries == contextWindow[k]
       IN  /\ Len(entries) % 2 = 0
           /\ \A i \in 1..Len(entries) :
                 entries[i].role = IF i % 2 = 1 THEN "user" ELSE "assistant"

\* request c ends in this step
HandlerEnds(c) == handlers.slots[c].phase = "awaiting" /\ handlers'.slots[c].phase = "done"

\* the conversation named by the request (its conversation_id, or its own request id when
\* it sent none) is as before or has gained the request's user entry and, right behind
\* it, an assistant entry; every other conversation is as before
OwnPairAppended(c) ==
    LET h      == handlers.slots[c]
        key    == IF h.conversationId = <<>> THEN <<"req", h.requestId>>
                  ELSE h.conversationId[1]
        before == getContextWindow(contextWindow, key)
        after  == getContextWindow(contextWindow', key)
    IN  /\ \/ contextWindow' = contextWindow
           \/ /\ Len(after) >= 2
              /\ after[Len(after) - 1] = [role |-> "user", content |-> h.message]
              /\ after[Len(after)].role = "assistant"
              /\ after = LastEntries(before \o SubSeq(after, Len(after) - 1, Len(after)),
                                     WindowSize)
        /\ \A k \in DOMAIN contextWindow' :
              k # key => k \in DOMAIN contextWindow /\ contextWindow'[k] = contextWindow[k]

\* C31: for any interleaving of concurrent requests on one conversation id, each
\* request's user entry and assistant entry are appended adjacently and in that order,
\* and appends to one conversation never change another conversation
C31_TurnsAdjacentPerConversation ==
    /\ []PairsIntact
    /\ [][ /\ \A c \in 1..MaxHandlers : HandlerEnds(c) => OwnPairAppended(c)
           /\ (\A c \in 1..MaxHandlers : ~HandlerEnds(c)) => contextWindow' = contextWindow
         ]_vars

\* two requests on one conversation overlapped and both completed, the later one first:
\* the conversation holds the later request's pair, then the earlier request's pair, and a
\* third request's own conversation holds that request's pair
C31_Witness ==
    /\ handlers.begun >= 3
    /\ \E a, b \in 1..MaxHandlers :
          LET ha == handlers.slots[a]  hb == handlers.slots[b]
          IN  /\ a # b
              /\ ha.phase = "done" /\ hb.phase = "done"
              /\ hb.overlapped
              /\ ha.conversationId = << <<"conv", 1>> >>
              /\ hb.conversationId = << <<"conv", 1>> >>
              /\ ha.message # hb.message
              /\ Len(contextWindow[<<"conv", 1>>]) = 4
              /\ contextWindow[<<"conv", 1>>][1].content = hb.message
              /\ contextWindow[<<"conv", 1>>][3].content = ha.message
    /\ \E k \in DOMAIN contextWindow : k # <<"conv", 1>> /\ Len(contextWindow[k]) = 2

====
